---- MODULE Spec2Model ----
(***************************************************************************)
(* A model of the wallet tracker: the Store (subscriptions, identity       *)
(* linkage, UTXO table, scan cursor), the track / untrack commands, the    *)
(* per-tick pipeline of BlockPoller.processNewBlocks and the Notifier.     *)
(*                                                                         *)
(* Strings stand for addresses and hashes.  One identity "h1" owns the     *)
(* address forms "T1" (p2tr), "W1" (p2wpkh) and "X1" (the 0x-prefixed hex  *)
(* of the hash); identity "h2" owns "T2" and "X2" only (its original       *)
(* public key is not on chain, so p2wpkh cannot be derived).  "B" is an    *)
(* address nobody tracks.  The forms p2pkh and csv1 take the same code     *)
(* paths as p2wpkh and are left out; p2op and tweakedPubkey are left out.  *)
(***************************************************************************)
EXTENDS Integers, Sequences, FiniteSets, TLC

VARIABLES
    subscriptions,       \* Store.subscriptions: sequence of Subscription
    lastProcessedBlock,  \* Store.lastProcessedBlock: Null or a height
    utxos,               \* Store.utxos: primary address -> sequence of StoredUTXO
    authorizedChats,     \* Store.authorizedChats
    tokenSubscriptions,  \* Store.tokenSubscriptions (token watches)
    paidLive,            \* the chats for which hasActiveSubscription holds now
    expiredNotified,     \* Notifier.expiredNotified
    notifiedTxHashes,    \* BlockPoller.notifiedTxHashes, in insertion order
    utxoPopulated,       \* BlockPoller.utxoPopulated
    chain,               \* the blocks the RPC and the indexer serve, by height
    typed,               \* the <<chat, address>> pairs the users of this run type
    cmds,                \* the number of commands the run still handles
    pc,                  \* position of the poller: "idle", or "scan" inside a tick
    tick,                \* the locals of the running tick
    msgs,                \* history: the sendMessage calls of the last tick that scanned
    hist,                \* history: facts about the last tick
    lastOp,              \* history: the last command and its answer
    accessCodes,         \* the access_codes collection: code -> document
    paidSubs,            \* the subscriptions_paid collection: chat -> code of its document
    calls,               \* the redeemCommand calls in flight
    poller,              \* BlockPoller.running, BlockPoller.timer, pending timers, polls in progress
    session,             \* history: facts about the ticks of this process so far
    file,                \* the JSON file of the Store: its cursor, the pending save timer
    expiry               \* history: the days passed, and the expiresAt redeemCode wrote for each chat

vars == <<subscriptions, lastProcessedBlock, utxos, authorizedChats,
          tokenSubscriptions, paidLive, expiredNotified, notifiedTxHashes,
          utxoPopulated, chain, typed, cmds, pc, tick, msgs, hist, lastOp,
          accessCodes, paidSubs, calls, poller, session, file, expiry>>

\* the state of the /redeem flow
redeemVars == <<accessCodes, paidSubs, calls>>

(***************************************************************************)
(* Universe                                                                *)
(***************************************************************************)
None == ""
\* lastProcessedBlock: null (no block processed yet)
Null == 0 - 1

Chats == {1, 2}
External == "B"
\* the NativeSwap contract
NativeSwap == "NS"

\* '0x' + mldsaHash
Ox(h) == CASE h = "h1" -> "X1" [] h = "h2" -> "X2" [] OTHER -> None

\* s.startsWith('0x') ? s.slice(2).toLowerCase() : s.toLowerCase()
StripHex(s) == CASE s = "X1" -> "h1" [] s = "X2" -> "h2" [] OTHER -> s

\* The identity the chain records for an address (getPublicKeyInfo).
OwnerOf(a) ==
    CASE a \in {"T1", "W1", "X1", "h1"} -> "h1"
      [] a \in {"T2", "X2", "h2"} -> "h2"
      [] OTHER -> None

NoLink == [mldsaHash |-> None, p2tr |-> None, p2wpkh |-> None]

\* The linkage derived from an owner record: owner.p2tr(net), owner.p2wpkh(net).
DeriveLinked(h) ==
    CASE h = "h1" -> [mldsaHash |-> "h1", p2tr |-> "T1", p2wpkh |-> "W1"]
      [] h = "h2" -> [mldsaHash |-> "h2", p2tr |-> "T2", p2wpkh |-> None]
      [] OTHER -> NoLink

\* getPublicKeyInfo answers with the owner or throws; a null answer (no owner
\* known) takes the same path as a throw in both callers and is not drawn.
RpcResults == {"ok", "throw"}

\* The outcome of the identity resolution both callers perform.
ResolveOutcome(a, rpc) == IF rpc = "ok" THEN DeriveLinked(OwnerOf(a)) ELSE NoLink

\* The access codes the payment pipeline has created.  "JTX" is a code whose
\* codeExpiresAt has passed; "JT0" is a well-formed code that was never created.
Codes == {"JTA", "JTB", "JT1", "JTX"}

AccessCodeDoc(used, redeemedBy, expired) ==
    [used |-> used, redeemedBy |-> redeemedBy, expired |-> expired]

\* access_codes before any redemption
FreshCodes == [code \in Codes |-> AccessCodeDoc(FALSE, 0, code = "JTX")]

(***************************************************************************)
(* Bounds                                                                  *)
(***************************************************************************)
MaxPerUser == 2
MaxHeight == 2
MaxCmds == 2
MaxStoreCmds == 3
MaxCalls == 2
MaxTimers == 4
MaxPolls == 3
MaxLoops == 3
MaxAborts == 1
MaxNow == 2

(***************************************************************************)
(* Store: subscriptions                                                    *)
(***************************************************************************)
SeqToSet(s) == {s[i] : i \in DOMAIN s}

UserSubs(subs, chatId) == SelectSeq(subs, LAMBDA s : s.chatId = chatId)

\* WalletRepository.addSubscription without the duplicate test.
AddSubscriptionResultNoDup(subs, chatId, address, maxPerUser) ==
    IF Len(UserSubs(subs, chatId)) >= maxPerUser THEN "limit_exceeded" ELSE "added"

AddSubscriptionResult(subs, chatId, address, maxPerUser) ==
    LET userSubs == UserSubs(subs, chatId) IN
    IF Len(userSubs) >= maxPerUser THEN "limit_exceeded"
    ELSE IF \E i \in DOMAIN userSubs : userSubs[i].address = address THEN "duplicate"
    ELSE "added"

AddSubscriptionStore(subs, chatId, address, maxPerUser) ==
    IF AddSubscriptionResult(subs, chatId, address, maxPerUser) = "added"
    THEN Append(subs, [chatId |-> chatId, address |-> address, linked |-> NoLink])
    ELSE subs

RemoveSubscriptionStore(subs, chatId, address) ==
    SelectSeq(subs, LAMBDA s : ~(s.chatId = chatId /\ s.address = address))

\* Array.prototype.find over the subscriptions: the index of the first
\* Subscription whose address is the given one, 0 if none.
FirstSubWithAddress(subs, address) ==
    IF \E i \in DOMAIN subs : subs[i].address = address
    THEN CHOOSE i \in DOMAIN subs :
            /\ subs[i].address = address
            /\ \A j \in 1..(i - 1) : subs[j].address # address
    ELSE 0

UpdateLinkedAddresses(subs, primaryAddress, linked) ==
    LET i == FirstSubWithAddress(subs, primaryAddress) IN
    IF i = 0 THEN subs ELSE [subs EXCEPT ![i].linked = linked]

GetLinkedAddressesFor(subs, address) ==
    LET i == FirstSubWithAddress(subs, address) IN
    IF i = 0 THEN NoLink ELSE subs[i].linked

MatchesMldsaHash(s, mldsaHash) ==
    s.linked.mldsaHash = mldsaHash \/ s.address = Ox(mldsaHash)

\* The index of the first Subscription, of any chat, sharing the hash; 0 if none.
FindSubscriptionByMldsaHash(subs, mldsaHash) ==
    IF \E i \in DOMAIN subs : MatchesMldsaHash(subs[i], mldsaHash)
    THEN CHOOSE i \in DOMAIN subs :
            /\ MatchesMldsaHash(subs[i], mldsaHash)
            /\ \A j \in 1..(i - 1) : ~MatchesMldsaHash(subs[j], mldsaHash)
    ELSE 0

RECURSIVE DistinctAddresses(_, _, _)
DistinctAddresses(subs, i, acc) ==
    IF i > Len(subs) THEN acc
    ELSE DistinctAddresses(subs, i + 1,
            IF \E k \in DOMAIN acc : acc[k] = subs[i].address
            THEN acc ELSE Append(acc, subs[i].address))

\* The distinct primary addresses, in order of first appearance.
GetAllTrackedAddresses(subs) == DistinctAddresses(subs, 1, <<>>)

GetChatIdsForAddress(subs, address) ==
    SelectSeq(subs, LAMBDA s : s.address = address)

(***************************************************************************)
(* Maps (JavaScript Map / object): functions with a finite domain          *)
(***************************************************************************)
EmptyMap == [x \in {} |-> None]

MapPut(m, k, v) == [x \in (DOMAIN m) \cup {k} |-> IF x = k THEN v ELSE m[x]]

MapGetOr(m, k, default) == IF k \in DOMAIN m THEN m[k] ELSE default

(***************************************************************************)
(* Store: UTXO table.  store.utxos is an object keyed by primary address;  *)
(* it is kept as the sequence of its entries in key insertion order.       *)
(***************************************************************************)
UtxoIndex(table, addr) ==
    IF \E i \in DOMAIN table : table[i].addr = addr
    THEN CHOOSE i \in DOMAIN table : table[i].addr = addr
    ELSE 0

UtxoListOf(table, addr) ==
    LET i == UtxoIndex(table, addr) IN IF i = 0 THEN <<>> ELSE table[i].list

PutUtxoList(table, addr, list) ==
    LET i == UtxoIndex(table, addr) IN
    IF i = 0 THEN Append(table, [addr |-> addr, list |-> list])
    ELSE [table EXCEPT ![i].list = list]

AddUTXO(table, primaryAddress, txid, vout, value) ==
    LET list == UtxoListOf(table, primaryAddress) IN
    IF \E i \in DOMAIN list : list[i].txid = txid /\ list[i].vout = vout
    THEN table
    ELSE PutUtxoList(table, primaryAddress,
            Append(list, [txid |-> txid, vout |-> vout, value |-> value]))

RemoveUTXO(table, txid, vout) ==
    [i \in DOMAIN table |->
        [table[i] EXCEPT !.list =
            SelectSeq(@, LAMBDA u : ~(u.txid = txid /\ u.vout = vout))]]

SetUTXOs(table, primaryAddress, list) == PutUtxoList(table, primaryAddress, list)

RECURSIVE PutAllUtxos(_, _, _, _)
PutAllUtxos(m, addr, list, j) ==
    IF j > Len(list) THEN m
    ELSE PutAllUtxos(
            MapPut(m, <<list[j].txid, list[j].vout>>,
                   [primaryAddress |-> addr, value |-> list[j].value]),
            addr, list, j + 1)

RECURSIVE BuildUTXOMapFrom(_, _, _)
BuildUTXOMapFrom(table, i, m) ==
    IF i > Len(table) THEN m
    ELSE BuildUTXOMapFrom(table, i + 1, PutAllUtxos(m, table[i].addr, table[i].list, 1))

\* "txid:vout" -> { primaryAddress, value }; a later entry overwrites an earlier one.
BuildUTXOMap(table) == BuildUTXOMapFrom(table, 1, EmptyMap)

(***************************************************************************)
(* Store: identity projection                                              *)
(***************************************************************************)
MldsaHas(mldsaMap, addr) == \E i \in DOMAIN mldsaMap : mldsaMap[i].addr = addr

\* The extra address formats of a linkage, in the order the code visits them.
LinkedExtras(linked) == <<linked.p2tr, linked.p2wpkh>>

RECURSIVE AddExtras(_, _, _, _)
AddExtras(acc, extras, primary, j) ==
    IF j > Len(extras) THEN acc
    ELSE AddExtras(
            IF extras[j] # None /\ extras[j] # primary
            THEN [acc EXCEPT !.trackedSet = @ \cup {extras[j]},
                             !.canonicalMap = MapPut(@, extras[j], primary)]
            ELSE acc,
            extras, primary, j + 1)

RECURSIVE ExpandFrom(_, _, _, _)
ExpandFrom(subs, i, acc, seenPrimaries) ==
    IF i > Len(subs) THEN acc
    ELSE LET primary == subs[i].address
             linked == subs[i].linked
             acc1 == [acc EXCEPT !.trackedSet = @ \cup {primary}]
         IN IF primary \in seenPrimaries
            THEN ExpandFrom(subs, i + 1, acc1, seenPrimaries)
            ELSE IF linked = NoLink
            THEN ExpandFrom(subs, i + 1, acc1, seenPrimaries \cup {primary})
            ELSE ExpandFrom(subs, i + 1,
                    AddExtras(
                        IF linked.mldsaHash # None
                        THEN [acc1 EXCEPT !.mldsaMap =
                                Append(@, [addr |-> primary, hash |-> linked.mldsaHash])]
                        ELSE acc1,
                        LinkedExtras(linked), primary, 1),
                    seenPrimaries \cup {primary})

\* { trackedSet, mldsaMap, canonicalMap }; mldsaMap is kept in insertion order.
GetExpandedAddressData(subs) ==
    ExpandFrom(subs, 1,
        [trackedSet |-> {}, mldsaMap |-> <<>>, canonicalMap |-> EmptyMap], {})


(***************************************************************************)
(* Sequence helpers                                                        *)
(***************************************************************************)
RECURSIVE ConcatAll(_)
ConcatAll(ss) == IF ss = <<>> THEN <<>> ELSE Head(ss) \o ConcatAll(Tail(ss))

FlatMap(s, Op(_)) == ConcatAll([i \in DOMAIN s |-> Op(s[i])])

RECURSIVE SumSeq(_)
SumSeq(s) == IF s = <<>> THEN 0 ELSE Head(s) + SumSeq(Tail(s))

(***************************************************************************)
(* The chain: what the RPC (getBlock, getUTXOs) and the indexer (/events)  *)
(* serve.  chain[h] names the shape of block h; a transaction hash is the  *)
(* pair <<letter, height>>.  One output exists before block 1: GenesisKey, *)
(* held at "T1".                                                           *)
(***************************************************************************)
GenesisTx == <<"g", 0>>
GenesisOutputs == <<[txid |-> GenesisTx, vout |-> 0, value |-> 5, address |-> "T1"]>>

Out(address, value, index) == [address |-> address, value |-> value, index |-> index]

Tx(hash, inputs, outputs) == [hash |-> hash, inputs |-> inputs, outputs |-> outputs]

\* block.transactions of the block at height h
BlockTxs(h, kind) ==
    CASE kind = "recv" -> <<Tx(<<"a", h>>, <<>>, <<Out("T1", 5, 0)>>)>>
      [] kind = "send" ->
            <<Tx(<<"b", h>>, <<<<GenesisTx, 0>>>>, <<Out(External, 3, 0), Out("T1", 1, 1)>>)>>
      [] kind = "alias" -> <<Tx(<<"c", h>>, <<>>, <<Out("W1", 4, 0), Out(External, 2, 1)>>)>>
      [] kind = "rs" ->
            <<Tx(<<"d", h>>, <<>>, <<Out("T1", 5, 0)>>),
              Tx(<<"e", h>>, <<<<<<"d", h>>, 0>>>>, <<Out(External, 4, 0)>>)>>
      [] kind = "spendprev" ->
            <<Tx(<<"s", h>>, <<<<<<"a", h - 1>>, 0>>>>, <<Out(External, 4, 0)>>)>>
      [] kind \in {"swap", "trade", "reserve", "pool", "stake", "tokenin", "consumed"} ->
            <<Tx(<<"f", h>>, <<>>, <<Out("T1", 1, 0)>>)>>
      [] kind = "twice" ->
            <<Tx(<<"f", h>>, <<>>, <<Out("T1", 2, 0), Out("W1", 3, 1)>>)>>
      [] kind = "spend2" ->
            <<Tx(<<"s", h>>,
                 <<<<<<"a", h - 1>>, 0>>, <<GenesisTx, 0>>, <<<<"z", 0>>, 0>>>>,
                 <<Out(External, 9, 0)>>)>>
      [] OTHER -> <<>>

NoRecords ==
    [transfers |-> <<>>, reservations |-> <<>>, swaps |-> <<>>,
     priceChanges |-> <<>>, poolEvents |-> <<>>, stakingEvents |-> <<>>]

\* the decimal digits, and the strings (sequences of characters) BigInt parses
Digits == <<"0", "1", "2", "3", "4", "5", "6", "7", "8", "9">>

IsDigit(c) == \E d \in DOMAIN Digits : Digits[d] = c

\* BigInt(s) throws a SyntaxError unless s reads as an integer
Parsable(s) == \A i \in DOMAIN s : IsDigit(s[i])

Transfer(h, contract, from, to) ==
    [txHash |-> <<"f", h>>, blockHeight |-> h, contractAddress |-> contract,
     from |-> from, to |-> to, value |-> <<"7">>]

\* the indexer's records of block h
BlockRecords(h, kind) ==
    CASE kind = "swap" ->
            [NoRecords EXCEPT
                !.swaps = <<[type |-> "swap_executed", txHash |-> <<"f", h>>,
                             blockHeight |-> h, address |-> "X1",
                             nativeSwapAddress |-> NativeSwap]>>,
                !.transfers = <<Transfer(h, "C", "hc", "X1")>>,
                !.priceChanges = <<[tokenContract |-> "C", deltaPct |-> 10,
                                    blockHeight |-> h]>>]
      [] kind = "trade" ->
            [NoRecords EXCEPT
                !.transfers = <<Transfer(h, "C", "h1", "hc"), Transfer(h, "D", "hc", "h1")>>]
      [] kind = "tokenin" ->
            [NoRecords EXCEPT !.transfers = <<Transfer(h, "C", "hc", "h1")>>]
      [] kind = "consumed" ->
            [NoRecords EXCEPT
                !.swaps = <<[type |-> "provider_consumed", txHash |-> <<"f", h>>,
                             blockHeight |-> h, address |-> "X1",
                             nativeSwapAddress |-> NativeSwap]>>]
      [] kind = "twice" ->
            [NoRecords EXCEPT
                !.transfers = <<Transfer(h, "C", "h1", "hc"), Transfer(h, "C", "h1", "X2")>>]
      [] kind = "badtoken" ->
            [NoRecords EXCEPT
                !.transfers = <<[Transfer(h, "C", "hc", "h1") EXCEPT !.value = <<"1", "e", "3">>],
                                Transfer(h, "D", "hc", "h1")>>]
      [] kind = "reserve" ->
            [NoRecords EXCEPT
                !.reservations = <<[txHash |-> <<"f", h>>, blockHeight |-> h,
                                    providerMldsa |-> "h1", buyerAddress |-> "X2",
                                    nativeSwapAddress |-> NativeSwap]>>]
      [] kind = "pool" ->
            [NoRecords EXCEPT
                !.poolEvents = <<[txHash |-> <<"f", h>>, blockHeight |-> h,
                                  action |-> "added", address |-> "X1",
                                  contractAddress |-> "C"]>>]
      [] kind = "stake" ->
            [NoRecords EXCEPT
                !.stakingEvents = <<[txHash |-> <<"f", h>>, blockHeight |-> h,
                                     action |-> "staked", address |-> "h1",
                                     contractAddress |-> "C"]>>]
      [] OTHER -> NoRecords

\* A chain is well formed when every input spends an output that exists and
\* no output is spent twice.
ValidChain(ch) ==
    /\ Cardinality({h \in DOMAIN ch : ch[h] = "send"}) <= 1
    /\ \A h \in DOMAIN ch : ch[h] = "spendprev" => h > 1 /\ ch[h - 1] = "recv"

RECURSIVE TxsUpTo(_, _)
TxsUpTo(ch, h) == IF h < 1 THEN <<>> ELSE TxsUpTo(ch, h - 1) \o BlockTxs(h, ch[h])

TxOutputs(tx) ==
    [i \in DOMAIN tx.outputs |->
        [txid |-> tx.hash, vout |-> tx.outputs[i].index,
         value |-> tx.outputs[i].value, address |-> tx.outputs[i].address]]

SpentKeysUpTo(ch, h) ==
    LET txs == TxsUpTo(ch, h) IN
    UNION {{txs[i].inputs[j] : j \in DOMAIN txs[i].inputs} : i \in DOMAIN txs}

\* utxoManager.getUTXOs({address}) of a node whose tip is at height view
ChainUTXOs(ch, address, view) ==
    LET all == GenesisOutputs \o FlatMap(TxsUpTo(ch, view), TxOutputs)
        live == SelectSeq(all, LAMBDA o :
                    o.address = address /\ <<o.txid, o.vout>> \notin SpentKeysUpTo(ch, view))
    IN [i \in DOMAIN live |->
            [txid |-> live[i].txid, vout |-> live[i].vout, value |-> live[i].value]]

\* GET /events?since=K of an indexer that has indexed up to block last
FetchEvents(ch, since, last) ==
    LET hs == [i \in 1..(IF last >= since THEN last - since + 1 ELSE 0) |-> since + i - 1]
        recs(h) == BlockRecords(h, ch[h])
    IN [lastIndexedBlock |-> last,
        transfers |-> FlatMap(hs, LAMBDA h : recs(h).transfers),
        reservations |-> FlatMap(hs, LAMBDA h : recs(h).reservations),
        swaps |-> FlatMap(hs, LAMBDA h : recs(h).swaps),
        priceChanges |-> FlatMap(hs, LAMBDA h : recs(h).priceChanges),
        poolEvents |-> FlatMap(hs, LAMBDA h : recs(h).poolEvents),
        stakingEvents |-> FlatMap(hs, LAMBDA h : recs(h).stakingEvents)]


(***************************************************************************)
(* Wallet events                                                           *)
(***************************************************************************)
\* The contracts the Store lists as NFT collections (getAllNftContractSet).
NftContractSet == {"N"}

Ev(type, txHash, blockHeight, address, direction, contract, satoshis, counterparty, role) ==
    [type |-> type, txHash |-> txHash, blockHeight |-> blockHeight, address |-> address,
     direction |-> direction, contractAddress |-> contract, satoshis |-> satoshis,
     counterparty |-> counterparty, role |-> role]

IsBtc(ev) == ev.type \in {"btc_sent", "btc_received"}

(***************************************************************************)
(* Indexer matcher                                                         *)
(***************************************************************************)
MatchTransfers(transfers, mldsaMap, nftContractSet) ==
    FlatMap(transfers, LAMBDA t :
        FlatMap(mldsaMap, LAMBDA m :
            LET fromHex == StripHex(t.from)
                toHex == StripHex(t.to)
                isFrom == m.hash = fromHex
                isTo == m.hash = toHex
            IN IF ~isFrom /\ ~isTo THEN <<>>
               ELSE <<Ev(IF t.contractAddress \in nftContractSet
                         THEN "nft_transfer" ELSE "token",
                         t.txHash, t.blockHeight, m.addr,
                         IF isFrom THEN "out" ELSE "in", t.contractAddress, 0,
                         Ox(IF isFrom THEN toHex ELSE fromHex), None)>>))

\* matchTransfers throws: BigInt(t.value) of a transfer that matches a tracked
\* identity is given a string it cannot parse
MatchTransfersThrows(transfers, mldsaMap) ==
    \E i \in DOMAIN transfers : \E j \in DOMAIN mldsaMap :
        /\ mldsaMap[j].hash \in {StripHex(transfers[i].from), StripHex(transfers[i].to)}
        /\ ~Parsable(transfers[i].value)

\* the batch holds a record whose amount is not a parsable integer
HasMalformed(indexerData) ==
    \E i \in DOMAIN indexerData.transfers : ~Parsable(indexerData.transfers[i].value)

Reserved(r, address, role) ==
    Ev("liquidity_reserved", r.txHash, r.blockHeight, address, None, r.nativeSwapAddress,
       0, None, role)

MatchReservations(reservations, mldsaMap, trackedSet, canonicalMap) ==
    FlatMap(reservations, LAMBDA r :
        LET providerHex == StripHex(r.providerMldsa)
            seller == FlatMap(mldsaMap, LAMBDA m :
                        IF m.hash # providerHex THEN <<>> ELSE <<Reserved(r, m.addr, "seller")>>)
            canonical == MapGetOr(canonicalMap, r.providerMldsa,
                            MapGetOr(canonicalMap, providerHex, None))
            fallback == IF seller = <<>> /\ canonical # None /\ r.providerMldsa \in trackedSet
                        THEN <<Reserved(r, canonical, "seller")>> ELSE <<>>
            buyer == IF r.buyerAddress = None THEN <<>>
                     ELSE FlatMap(mldsaMap, LAMBDA m :
                            IF m.hash # StripHex(r.buyerAddress) THEN <<>>
                            ELSE <<Reserved(r, m.addr, "buyer")>>)
        IN seller \o fallback \o buyer)

PushSwapEvent(s, btcAddr) ==
    Ev(IF s.type = "swap_executed" THEN "swap_executed" ELSE "provider_consumed",
       s.txHash, s.blockHeight, btcAddr, None, s.nativeSwapAddress, 0, None, None)

MatchSwaps(swaps, mldsaMap, trackedSet, canonicalMap) ==
    FlatMap(swaps, LAMBDA s :
        LET addrHex == StripHex(s.address)
            byHash == FlatMap(mldsaMap, LAMBDA m :
                        IF m.hash # addrHex THEN <<>> ELSE <<PushSwapEvent(s, m.addr)>>)
            canonical == MapGetOr(canonicalMap, s.address,
                            MapGetOr(canonicalMap, addrHex, None))
        IN IF byHash # <<>> THEN byHash
           ELSE IF canonical # None /\ s.address \in trackedSet
           THEN <<PushSwapEvent(s, canonical)>> ELSE <<>>)

MatchPoolEvents(poolEvents, mldsaMap) ==
    FlatMap(poolEvents, LAMBDA pe :
        FlatMap(mldsaMap, LAMBDA m :
            IF m.hash # StripHex(pe.address) THEN <<>>
            ELSE <<Ev(IF pe.action = "added" THEN "liquidity_added" ELSE "liquidity_removed",
                      pe.txHash, pe.blockHeight, m.addr, None, pe.contractAddress,
                      0, None, None)>>))

StakingType(action) ==
    CASE action = "staked" -> "staked"
      [] action = "unstaked" -> "unstaked"
      [] action = "claimed" -> "rewards_claimed"
      [] OTHER -> None

MatchStakingEvents(stakingEvents, mldsaMap) ==
    FlatMap(stakingEvents, LAMBDA se :
        FlatMap(mldsaMap, LAMBDA m :
            IF m.hash # StripHex(se.address) \/ StakingType(se.action) = None THEN <<>>
            ELSE <<Ev(StakingType(se.action), se.txHash, se.blockHeight, m.addr,
                      None, se.contractAddress, 0, None, None)>>))

(***************************************************************************)
(* BTC block scanner                                                       *)
(***************************************************************************)
NonTrackedOutputs(tx, trackedSet) ==
    SelectSeq(tx.outputs, LAMBDA o : o.address \notin trackedSet)

TrackedOutputs(tx, trackedSet) ==
    SelectSeq(tx.outputs, LAMBDA o : o.address \in trackedSet)

TxRecipient(tx, trackedSet) ==
    LET nt == NonTrackedOutputs(tx, trackedSet) IN
    IF nt = <<>> THEN None ELSE nt[1].address

\* the inputs of tx that spend a UTXO of the map
\* the input scan that stops at the first input found in the map
SpentInputsFirstOnly(tx, utxoMap) ==
    IF DOMAIN utxoMap = {} THEN <<>>
    ELSE LET spent == SelectSeq(tx.inputs, LAMBDA key : key \in DOMAIN utxoMap)
         IN IF spent = <<>> THEN <<>> ELSE <<spent[1]>>

SpentInputs(tx, utxoMap) ==
    IF DOMAIN utxoMap = {} THEN <<>>
    ELSE SelectSeq(tx.inputs, LAMBDA key : key \in DOMAIN utxoMap)

SentEvents(tx, h, trackedSet, utxoMap) ==
    LET spent == SpentInputs(tx, utxoMap) IN
    [i \in DOMAIN spent |->
        Ev("btc_sent", tx.hash, h, utxoMap[spent[i]].primaryAddress, None, None,
           utxoMap[spent[i]].value, TxRecipient(tx, trackedSet), None)]

\* canonicalMap.get(addr) ?? addr
Canonical(canonicalMap, addr) == MapGetOr(canonicalMap, addr, addr)

ReceivedEvents(tx, h, trackedSet, canonicalMap) ==
    LET outs == TrackedOutputs(tx, trackedSet) IN
    [i \in DOMAIN outs |->
        Ev("btc_received", tx.hash, h, Canonical(canonicalMap, outs[i].address),
           None, None, outs[i].value, None, None)]

ReceivedUTXOs(tx, trackedSet, canonicalMap) ==
    LET outs == TrackedOutputs(tx, trackedSet) IN
    [i \in DOMAIN outs |->
        [primaryAddress |-> Canonical(canonicalMap, outs[i].address),
         txid |-> tx.hash, vout |-> outs[i].index, value |-> outs[i].value]]

\* the inferred send of a transaction: a tracked receive and a non-tracked output
InferredSends(tx, h, trackedSet, canonicalMap) ==
    LET outs == TrackedOutputs(tx, trackedSet)
        nt == NonTrackedOutputs(tx, trackedSet)
    IN IF outs = <<>> \/ nt = <<>> THEN <<>>
       ELSE <<[txHash |-> tx.hash, blockHeight |-> h,
               address |-> Canonical(canonicalMap, outs[1].address),
               totalSent |-> SumSeq([i \in DOMAIN nt |-> nt[i].value]),
               counterparty |-> nt[1].address]>>

\* scanBlockForBTC for a block that was read: the map is not changed by the scan
ScanBlock(txs, h, trackedSet, canonicalMap, utxoMap) ==
    [events |-> FlatMap(txs, LAMBDA tx :
                    SentEvents(tx, h, trackedSet, utxoMap)
                    \o ReceivedEvents(tx, h, trackedSet, canonicalMap)),
     receivedUTXOs |-> FlatMap(txs, LAMBDA tx : ReceivedUTXOs(tx, trackedSet, canonicalMap)),
     spentUTXOKeys |-> FlatMap(txs, LAMBDA tx : SpentInputs(tx, utxoMap)),
     inferredSends |-> FlatMap(txs, LAMBDA tx : InferredSends(tx, h, trackedSet, canonicalMap))]


(***************************************************************************)
(* BlockPoller: identity resolution and UTXO seeding                       *)
(***************************************************************************)
\* one address of resolveAndCacheLinked whose owner was fetched
ResolveOne(acc, addr, linked) ==
    LET extras == SelectSeq(LinkedExtras(linked), LAMBDA e : e # None /\ e # addr)
        hexes == <<linked.mldsaHash, Ox(linked.mldsaHash)>>
        names == SeqToSet(extras) \cup SeqToSet(hexes)
    IN [subs |-> UpdateLinkedAddresses(acc.subs, addr, linked),
        data |-> [trackedSet |-> acc.data.trackedSet \cup names,
                  mldsaMap |-> Append(acc.data.mldsaMap,
                                      [addr |-> addr, hash |-> linked.mldsaHash]),
                  canonicalMap |->
                      [x \in (DOMAIN acc.data.canonicalMap) \cup names |->
                          IF x \in names THEN addr ELSE acc.data.canonicalMap[x]]]]

\* resolveAndCacheLinked without the try around one address: the first
\* address whose owner is not fetched ends the resolution of the others
RECURSIVE ResolveFromUnabsorbed(_, _, _, _)
ResolveFromUnabsorbed(acc, unresolved, rpc, i) ==
    IF i > Len(unresolved) THEN acc
    ELSE LET linked == ResolveOutcome(unresolved[i], rpc[unresolved[i]]) IN
         IF linked = NoLink THEN acc
         ELSE ResolveFromUnabsorbed(ResolveOne(acc, unresolved[i], linked),
                                    unresolved, rpc, i + 1)

RECURSIVE ResolveFrom(_, _, _, _)
ResolveFrom(acc, unresolved, rpc, i) ==
    IF i > Len(unresolved) THEN acc
    ELSE LET linked == ResolveOutcome(unresolved[i], rpc[unresolved[i]]) IN
         ResolveFrom(IF linked = NoLink THEN acc ELSE ResolveOne(acc, unresolved[i], linked),
                     unresolved, rpc, i + 1)

\* rpc[a] is the outcome of getPublicKeyInfo(a)
ResolveAndCacheLinked(subs, primaryAddrs, data, rpc) ==
    ResolveFrom([subs |-> subs, data |-> data],
                SelectSeq(primaryAddrs, LAMBDA a : ~MldsaHas(data.mldsaMap, a)), rpc, 1)

\* the addresses populateUTXOs queries for a primary address
SeedAddresses(subs, primaryAddr) ==
    LET linked == GetLinkedAddressesFor(subs, primaryAddr) IN
    <<primaryAddr>>
    \o (IF linked.p2tr # None /\ linked.p2tr # primaryAddr THEN <<linked.p2tr>> ELSE <<>>)
    \o (IF linked.p2wpkh # None THEN <<linked.p2wpkh>> ELSE <<>>)

RECURSIVE PopulateFrom(_, _, _, _, _, _, _)
PopulateFrom(table, subs, unpopulated, ch, view, failing, i) ==
    IF i > Len(unpopulated) THEN table
    ELSE LET allUTXOs == FlatMap(SeedAddresses(subs, unpopulated[i]), LAMBDA a :
                            IF a \in failing THEN <<>> ELSE ChainUTXOs(ch, a, view))
         IN PopulateFrom(SetUTXOs(table, unpopulated[i], allUTXOs),
                         subs, unpopulated, ch, view, failing, i + 1)

\* failing: the addresses whose getUTXOs call throws; view: the node's tip
PopulateUTXOs(table, subs, populated, primaryAddrs, ch, view, failing) ==
    PopulateFrom(table, subs, SelectSeq(primaryAddrs, LAMBDA a : a \notin populated),
                 ch, view, failing, 1)

(***************************************************************************)
(* BlockPoller: promotion, merge, suppression, session filter              *)
(***************************************************************************)
\* the promotion without the btcSentTxHashes test: every inferred send is pushed
PromoteEveryInferredSend(btcEvents, allInferredSends) ==
    btcEvents \o
    [i \in DOMAIN allInferredSends |->
        Ev("btc_sent", allInferredSends[i].txHash, allInferredSends[i].blockHeight,
           allInferredSends[i].address, None, None, allInferredSends[i].totalSent,
           allInferredSends[i].counterparty, None)]

PromoteInferredSends(btcEvents, allInferredSends) ==
    LET btcSentTxHashes ==
            {btcEvents[i].txHash : i \in {j \in DOMAIN btcEvents : btcEvents[j].type = "btc_sent"}}
        kept == SelectSeq(allInferredSends, LAMBDA inf : inf.txHash \notin btcSentTxHashes)
    IN btcEvents \o
       [i \in DOMAIN kept |->
            Ev("btc_sent", kept[i].txHash, kept[i].blockHeight, kept[i].address,
               None, None, kept[i].totalSent, kept[i].counterparty, None)]

DedupKey(ev) == <<ev.type, ev.txHash, ev.address, ev.contractAddress, ev.direction>>

RECURSIVE DedupFrom(_, _, _, _)
DedupFrom(allEvents, i, seenTxEvent, acc) ==
    IF i > Len(allEvents) THEN acc
    ELSE IF DedupKey(allEvents[i]) \in seenTxEvent
    THEN DedupFrom(allEvents, i + 1, seenTxEvent, acc)
    ELSE DedupFrom(allEvents, i + 1, seenTxEvent \cup {DedupKey(allEvents[i])},
                   Append(acc, allEvents[i]))

\* the i-th smallest index of a set of indices
NthOf(S, i) == CHOOSE n \in S : Cardinality({m \in S : m <= n}) = i

\* the dedup that keeps, of the events sharing a key, the last one
DedupEventsKeepLast(allEvents) ==
    LET lastOfKey == {n \in DOMAIN allEvents :
                        \A m \in (n + 1)..Len(allEvents) :
                            DedupKey(allEvents[m]) # DedupKey(allEvents[n])}
    IN [i \in 1..Cardinality(lastOfKey) |-> allEvents[NthOf(lastOfKey, i)]]

DedupEvents(allEvents) == DedupFrom(allEvents, 1, {}, <<>>)

AddrBlocks(events) == {<<events[i].address, events[i].blockHeight>> : i \in DOMAIN events}

\* the suppression set without the reservation events
SuppressBtcAddrBlocksNoReservation(tokenEvents, reservationEvents, swapEvents, poolEvents, stakingEvents) ==
    AddrBlocks(SelectSeq(swapEvents, LAMBDA ev : ev.type = "swap_executed"))
    \cup AddrBlocks(poolEvents)
    \cup AddrBlocks(stakingEvents)
    \cup (AddrBlocks(SelectSeq(tokenEvents, LAMBDA ev : ev.direction = "in"))
          \cap AddrBlocks(SelectSeq(tokenEvents, LAMBDA ev : ev.direction = "out")))

\* the suppression set that takes every swap event and every token event
SuppressBtcAddrBlocksOneSided(tokenEvents, reservationEvents, swapEvents, poolEvents, stakingEvents) ==
    AddrBlocks(swapEvents)
    \cup AddrBlocks(reservationEvents)
    \cup AddrBlocks(poolEvents)
    \cup AddrBlocks(stakingEvents)
    \cup AddrBlocks(tokenEvents)

SuppressBtcAddrBlocks(tokenEvents, reservationEvents, swapEvents, poolEvents, stakingEvents) ==
    AddrBlocks(SelectSeq(swapEvents, LAMBDA ev : ev.type = "swap_executed"))
    \cup AddrBlocks(reservationEvents)
    \cup AddrBlocks(poolEvents)
    \cup AddrBlocks(stakingEvents)
    \cup (AddrBlocks(SelectSeq(tokenEvents, LAMBDA ev : ev.direction = "in"))
          \cap AddrBlocks(SelectSeq(tokenEvents, LAMBDA ev : ev.direction = "out")))

SuppressBtc(dedupedEvents, suppressBtcAddrBlocks) ==
    SelectSeq(dedupedEvents, LAMBDA ev :
        ~(IsBtc(ev) /\ <<ev.address, ev.blockHeight>> \in suppressBtcAddrBlocks))

\* a session filter that lets nothing through
FilterNotifiedAll(dedupedEvents, notified) == <<>>

FilterNotified(dedupedEvents, notified) ==
    SelectSeq(dedupedEvents, LAMBDA e : \A k \in DOMAIN notified : notified[k] # e.txHash)

MAX_NOTIFIED_TX_HASHES == 1000

RECURSIVE AddAllHashes(_, _, _)
AddAllHashes(notified, events, i) ==
    IF i > Len(events) THEN notified
    ELSE AddAllHashes(
            IF \E k \in DOMAIN notified : notified[k] = events[i].txHash
            THEN notified ELSE Append(notified, events[i].txHash),
            events, i + 1)

\* the prune that deletes from the end of the insertion order
RememberNotifiedKeepOldest(notified, newEvents) ==
    LET all == AddAllHashes(notified, newEvents, 1) IN
    IF Len(all) > MAX_NOTIFIED_TX_HASHES
    THEN SubSeq(all, 1, MAX_NOTIFIED_TX_HASHES)
    ELSE all

\* notifiedTxHashes after a notify of newEvents: added, then pruned oldest first
RememberNotified(notified, newEvents) ==
    LET all == AddAllHashes(notified, newEvents, 1) IN
    IF Len(all) > MAX_NOTIFIED_TX_HASHES
    THEN SubSeq(all, Len(all) - MAX_NOTIFIED_TX_HASHES + 1, Len(all))
    ELSE all


(***************************************************************************)
(* Outbound messages.  msgs records every bot.api.sendMessage call: the    *)
(* chat, what was sent, whether a positive hasActiveSubscription(chat)     *)
(* answer preceded the call, and whether the call succeeded; n numbers     *)
(* the calls that agree on everything else.                                *)
(***************************************************************************)
Msg(chat, kind, gated, ok, address, txHash) ==
    [chat |-> chat, kind |-> kind, gated |-> gated, ok |-> ok,
     address |-> address, txHash |-> txHash, n |-> 1]

SendMessage(ms, m) ==
    ms \cup {[m EXCEPT !.n = 1 + Cardinality({x \in ms : [x EXCEPT !.n = 1] = m})]}

\* subscriptionRepo.hasActiveSubscription(chatId)
HasActiveSubscription(paid, chatId) == chatId \in paid

(***************************************************************************)
(* Notifier.notify                                                         *)
(***************************************************************************)
RECURSIVE GroupKeysFrom(_, _, _)
GroupKeysFrom(events, i, acc) ==
    IF i > Len(events) THEN acc
    ELSE LET key == <<events[i].address, events[i].txHash>> IN
         GroupKeysFrom(events, i + 1,
            IF \E k \in DOMAIN acc : acc[k] = key THEN acc ELSE Append(acc, key))

\* the keys of the groups, in insertion order
GroupKeys(events) == GroupKeysFrom(events, 1, <<>>)

\* one entry per (group, subscriber), in the order notify visits them
NotifyTargets(events, subs) ==
    FlatMap(GroupKeys(events), LAMBDA key :
        LET subscribers == GetChatIdsForAddress(subs, key[1]) IN
        [i \in DOMAIN subscribers |->
            [chatId |-> subscribers[i].chatId, address |-> key[1], txHash |-> key[2]]])

\* a notify that does not remember the chats it sent the expiry notice to
NotifyOneNoMark(acc, t, paid, down) ==
    IF ~HasActiveSubscription(paid, t.chatId)
    THEN [expiredNotified |-> acc.expiredNotified,
          msgs |-> SendMessage(acc.msgs,
                     Msg(t.chatId, "expiry", FALSE, t.chatId \notin down, None, GenesisTx))]
    ELSE [expiredNotified |-> acc.expiredNotified \ {t.chatId},
          msgs |-> SendMessage(acc.msgs,
                     Msg(t.chatId, "event", TRUE, t.chatId \notin down, t.address, t.txHash))]

NotifyOne(acc, t, paid, down) ==
    IF ~HasActiveSubscription(paid, t.chatId)
    THEN IF t.chatId \notin acc.expiredNotified
         THEN [expiredNotified |-> acc.expiredNotified \cup {t.chatId},
               msgs |-> SendMessage(acc.msgs,
                          Msg(t.chatId, "expiry", FALSE, t.chatId \notin down, None, GenesisTx))]
         ELSE acc
    ELSE [expiredNotified |-> acc.expiredNotified \ {t.chatId},
          msgs |-> SendMessage(acc.msgs,
                     Msg(t.chatId, "event", TRUE, t.chatId \notin down, t.address, t.txHash))]

RECURSIVE NotifyFrom(_, _, _, _, _)
NotifyFrom(acc, targets, paid, down, i) ==
    IF i > Len(targets) THEN acc
    ELSE NotifyFrom(NotifyOne(acc, targets[i], paid, down), targets, paid, down, i + 1)

\* down: the chats to which a sendMessage call fails
Notify(events, subs, paid, expired, ms, down) ==
    NotifyFrom([expiredNotified |-> expired, msgs |-> ms],
               NotifyTargets(events, subs), paid, down, 1)

(***************************************************************************)
(* Price alerts                                                            *)
(***************************************************************************)
GetSubscribersForToken(tokenSubs, contractAddress) ==
    SelectSeq(tokenSubs, LAMBDA s : s.contractAddress = contractAddress)

PriceTargets(priceChanges, tokenSubs) ==
    FlatMap(priceChanges, LAMBDA p :
        LET subscribers ==
                SelectSeq(GetSubscribersForToken(tokenSubs, p.tokenContract), LAMBDA sub :
                    ~(sub.priceThresholdPct <= 0 \/ p.deltaPct < sub.priceThresholdPct))
        IN [i \in DOMAIN subscribers |->
                [chatId |-> subscribers[i].chatId, contract |-> p.tokenContract,
                 blockHeight |-> p.blockHeight]])

RECURSIVE PriceFrom(_, _, _, _)
PriceFrom(ms, targets, down, i) ==
    IF i > Len(targets) THEN ms
    ELSE PriceFrom(
            SendMessage(ms, Msg(targets[i].chatId, "price", FALSE,
                                targets[i].chatId \notin down,
                                targets[i].contract, <<"p", targets[i].blockHeight>>)),
            targets, down, i + 1)

ProcessPriceChanges(priceChanges, tokenSubs, ms, down) ==
    PriceFrom(ms, PriceTargets(priceChanges, tokenSubs), down, 1)

\* the message sent to every authorized chat when the scan of a block fails
RECURSIVE ScanFailedFrom(_, _, _, _)
ScanFailedFrom(ms, chats, height, down) ==
    IF chats = {} THEN ms
    ELSE LET c == CHOOSE x \in chats : \A y \in chats : x <= y IN
         ScanFailedFrom(
            SendMessage(ms, Msg(c, "scanfail", FALSE, c \notin down, None, <<"x", height>>)),
            chats \ {c}, height, down)


(***************************************************************************)
(* The runs checked                                                        *)
(***************************************************************************)
Max(a, b) == IF a >= b THEN a ELSE b

\* the shapes the blocks of a chain take in turn
Themes ==
    << <<"recv", "spendprev">>,
       <<"rs", "alias">>,
       <<"reserve", "swap">>,
       <<"trade", "send">>,
       <<"pool", "stake">>,
       <<"tokenin", "quiet">> >>

Chains ==
    {ch \in {[h \in 1..MaxHeight |-> Themes[t][((h - 1) % Len(Themes[t])) + 1]] :
                t \in DOMAIN Themes} :
        ValidChain(ch)}

QuietChain == [h \in 1..MaxHeight |-> "quiet"]

\* the token watches stored before the run
TokenWatches ==
    <<[chatId |-> 1, contractAddress |-> "C", priceThresholdPct |-> 5],
      [chatId |-> 2, contractAddress |-> "C", priceThresholdPct |-> 0]>>

NoTick ==
    [saved |-> Null, since |-> 0, last |-> 0, height |-> 0,
     trackedSet |-> {}, canonicalMap |-> EmptyMap, utxoMap |-> EmptyMap,
     tokenEvents |-> <<>>, reservationEvents |-> <<>>, swapEvents |-> <<>>,
     poolEvents |-> <<>>, stakingEvents |-> <<>>, priceChanges |-> <<>>,
     btcEvents |-> <<>>, allInferredSends |-> <<>>,
     down |-> {}, readFailed |-> FALSE, sendFailed |-> FALSE]

NoHist ==
    [owed |-> {}, handed |-> {}, S |-> {}, suppressed |-> {},
     readFailed |-> FALSE, sendFailed |-> FALSE, wrote |-> FALSE, from |-> Null,
     dispatched |-> FALSE, produced |-> {}, sentHeights |-> <<>>, prevHeight |-> 0,
     rehanded |-> {}, malformed |-> FALSE, aborted |-> FALSE,
     asked |-> {}, skipped |-> {}, mldsaKeys |-> {}]

NoOp == [op |-> None, chatId |-> 0, address |-> None, result |-> None]

NoCall == [pc |-> "none", chatId |-> 0, code |-> None, result |-> None]

\* start() has not been called: not running, no timer, no poll in progress
NoPoller == [running |-> FALSE, timer |-> 0, pending |-> {}, polls |-> 0]

\* the file before any save, and database.scheduleSave(): arm the save timer
\* unless one is pending
NoFile == [saveTimer |-> FALSE, lastProcessedBlock |-> Null, failed |-> FALSE]

ScheduleSave(f) == [f EXCEPT !.saveTimer = TRUE]

\* doc.subscriptionDays of an access code
SubscriptionDays(code) == IF code = "JTA" THEN 3 ELSE 1

\* day 0, and no expiresAt written by redeemCode yet
NoExpiry == [now |-> 0, expiresAt |-> [c \in Chats |-> Null]]

\* expiresAt = new Date(now.getTime() + doc.subscriptionDays * 24 * 60 * 60 * 1000)
ExpiresAt(now, code) == now + SubscriptionDays(code)

NoSession ==
    [notices |-> [c \in Chats |-> 0], handedTx |-> {}, lastHeight |-> 0,
     replay |-> [set |-> FALSE], aborts |-> 0, renewed |-> {}]

InitCommon ==
    /\ subscriptions = <<>>
    /\ lastProcessedBlock = Null
    /\ utxos = <<>>
    /\ authorizedChats = Chats
    /\ tokenSubscriptions = TokenWatches
    /\ paidLive = Chats
    /\ expiredNotified = {}
    /\ notifiedTxHashes = <<>>
    /\ utxoPopulated = {}
    /\ pc = "idle"
    /\ tick = NoTick
    /\ msgs = {}
    /\ hist = NoHist
    /\ lastOp = NoOp
    /\ accessCodes = [FreshCodes EXCEPT !["JTA"] = AccessCodeDoc(TRUE, 1, FALSE),
                                        !["JTB"] = AccessCodeDoc(TRUE, 2, FALSE)]
    /\ paidSubs = [c \in Chats |-> IF c = 1 THEN "JTA" ELSE "JTB"]
    /\ calls = [i \in 1..MaxCalls |-> NoCall]
    /\ poller = NoPoller
    /\ session = NoSession
    /\ file = NoFile
    /\ expiry = NoExpiry

\* Both chats have redeemed a code; nothing is tracked yet.
Init ==
    /\ InitCommon
    /\ chain \in Chains
    /\ typed = {<<1, "T1">>, <<1, "W1">>, <<2, "T1">>}
    /\ cmds = MaxCmds

InitStore ==
    /\ InitCommon
    /\ chain = QuietChain
    /\ typed = {<<1, "T1">>, <<1, "W1">>, <<1, "X1">>, <<2, "T1">>, <<2, "T2">>}
    /\ cmds = MaxStoreCmds

(***************************************************************************)
(* Commands                                                                *)
(***************************************************************************)
\* trackCommand: existing && existing.address !== address
AlreadyTracking(subs, address, linkedResult) ==
    /\ linkedResult.mldsaHash # None
    /\ FindSubscriptionByMldsaHash(subs, linkedResult.mldsaHash) # 0
    /\ subs[FindSubscriptionByMldsaHash(subs, linkedResult.mldsaHash)].address # address

TrackCommand(chatId, address, rpc) ==
    LET linkedResult == ResolveOutcome(address, rpc)
        result == IF AlreadyTracking(subscriptions, address, linkedResult)
                  THEN "already_tracking"
                  ELSE AddSubscriptionResult(subscriptions, chatId, address, MaxPerUser)
        added == AddSubscriptionStore(subscriptions, chatId, address, MaxPerUser)
    IN /\ pc = "idle"
       /\ cmds > 0
       /\ cmds' = cmds - 1
       /\ subscriptions' =
            IF result = "added"
            THEN IF linkedResult # NoLink
                 THEN UpdateLinkedAddresses(added, address, linkedResult)
                 ELSE added
            ELSE subscriptions
       /\ lastOp' = [op |-> "track", chatId |-> chatId, address |-> address,
                     result |-> result]
       /\ UNCHANGED <<redeemVars, poller, session>>
       /\ UNCHANGED expiry
       /\ file' = IF subscriptions' # subscriptions THEN ScheduleSave(file) ELSE file
       /\ UNCHANGED <<lastProcessedBlock, utxos, authorizedChats, tokenSubscriptions,
                      paidLive, expiredNotified, notifiedTxHashes, utxoPopulated,
                      chain, typed, pc, tick, msgs, hist>>

UntrackCommand(chatId, address) ==
    /\ pc = "idle"
    /\ cmds > 0
    /\ cmds' = cmds - 1
    /\ subscriptions' = RemoveSubscriptionStore(subscriptions, chatId, address)
    /\ lastOp' = [op |-> "untrack", chatId |-> chatId, address |-> address,
                  result |-> IF subscriptions' # subscriptions THEN "removed" ELSE "none"]
    /\ UNCHANGED <<redeemVars, poller, session>>
    /\ UNCHANGED expiry
    /\ file' = IF subscriptions' # subscriptions THEN ScheduleSave(file) ELSE file
    /\ UNCHANGED <<lastProcessedBlock, utxos, authorizedChats, tokenSubscriptions,
                   paidLive, expiredNotified, notifiedTxHashes, utxoPopulated,
                   chain, typed, pc, tick, msgs, hist>>

\* The paid subscription of a chat runs out (expiresAt passes).  Only Notifier
\* reads it, at the end of a tick, so the moment is drawn between ticks.
Expire(chatId) ==
    /\ pc = "idle"
    /\ chatId \in paidLive
    /\ paidLive' = paidLive \ {chatId}
    /\ lastOp' = NoOp
    /\ UNCHANGED <<redeemVars, poller, session>>
    /\ UNCHANGED expiry
    /\ UNCHANGED file
    /\ UNCHANGED <<subscriptions, lastProcessedBlock, utxos, authorizedChats,
                   tokenSubscriptions, expiredNotified, notifiedTxHashes, utxoPopulated,
                   chain, typed, cmds, pc, tick, msgs, hist>>


\* /revoke <chatId> of the admin: walletRepo.revokeChat takes the chat out of
\* the Authorized Chats
RevokeCommand(chatId) ==
    /\ pc = "idle"
    /\ chatId \in authorizedChats
    /\ authorizedChats' = authorizedChats \ {chatId}
    /\ lastOp' = NoOp
    /\ UNCHANGED <<redeemVars, poller, session>>
    /\ UNCHANGED expiry
    /\ file' = ScheduleSave(file)
    /\ UNCHANGED <<subscriptions, lastProcessedBlock, utxos, tokenSubscriptions, paidLive,
                   expiredNotified, notifiedTxHashes, utxoPopulated, chain, typed, cmds,
                   pc, tick, msgs, hist>>

(***************************************************************************)
(* /redeem.  redeemCode awaits three document-store operations in turn:    *)
(* findOne on access_codes, updateOne on access_codes, updateOne (upsert)  *)
(* on subscriptions_paid.  A call is at "find", "mark" or "upsert" while   *)
(* the operation of that name is outstanding; the store runs each          *)
(* operation atomically.                                                   *)
(***************************************************************************)
\* the codes users type
TypedCodes == {"JT1", "JTA", "JTX", "JT0"}

\* accessCodesCol.findOne({ code }): the document, or the null record
FindCode(codesCol, code) ==
    IF code \in DOMAIN codesCol
    THEN [found |-> TRUE, used |-> codesCol[code].used, expired |-> codesCol[code].expired]
    ELSE [found |-> FALSE, used |-> FALSE, expired |-> FALSE]

\* the checks redeemCode makes on the document it read
RedeemCheck(doc) ==
    IF ~doc.found THEN "Invalid access code"
    ELSE IF doc.used THEN "This code has already been redeemed"
    ELSE IF doc.expired THEN "This code has expired"
    ELSE "ok"

\* redeemCommand up to the first await of redeemCode
RedeemCommand(i, chatId, code) ==
    /\ pc = "idle"
    /\ calls[i].pc = "none"
    /\ calls' = [calls EXCEPT ![i] = [pc |-> "find", chatId |-> chatId, code |-> code,
                                      result |-> None]]
    /\ lastOp' = NoOp
    /\ UNCHANGED <<accessCodes, paidSubs, poller, session>>
    /\ UNCHANGED expiry
    /\ UNCHANGED file
    /\ UNCHANGED <<subscriptions, lastProcessedBlock, utxos, authorizedChats,
                   tokenSubscriptions, paidLive, expiredNotified, notifiedTxHashes,
                   utxoPopulated, chain, typed, cmds, pc, tick, msgs, hist>>

\* findOne answers; redeemCode checks the document and either returns the
\* error (which redeemCommand replies) or issues the update that marks the code
RedeemFind(i) ==
    LET check == RedeemCheck(FindCode(accessCodes, calls[i].code)) IN
    /\ pc = "idle"
    /\ calls[i].pc = "find"
    /\ calls' = [calls EXCEPT ![i] =
                    IF check = "ok" THEN [@ EXCEPT !.pc = "mark"]
                    ELSE [@ EXCEPT !.pc = "done", !.result = check]]
    /\ lastOp' = NoOp
    /\ UNCHANGED <<accessCodes, paidSubs, poller, session>>
    /\ UNCHANGED expiry
    /\ UNCHANGED file
    /\ UNCHANGED <<subscriptions, lastProcessedBlock, utxos, authorizedChats,
                   tokenSubscriptions, paidLive, expiredNotified, notifiedTxHashes,
                   utxoPopulated, chain, typed, cmds, pc, tick, msgs, hist>>

\* updateOne({ code }, { $set: { used: true, redeemedBy: chatId } })
RedeemMark(i) ==
    /\ pc = "idle"
    /\ calls[i].pc = "mark"
    /\ accessCodes' = [accessCodes EXCEPT ![calls[i].code] =
                          [@ EXCEPT !.used = TRUE, !.redeemedBy = calls[i].chatId]]
    /\ calls' = [calls EXCEPT ![i].pc = "upsert"]
    /\ lastOp' = NoOp
    /\ UNCHANGED <<paidSubs, poller, session>>
    /\ UNCHANGED expiry
    /\ UNCHANGED file
    /\ UNCHANGED <<subscriptions, lastProcessedBlock, utxos, authorizedChats,
                   tokenSubscriptions, paidLive, expiredNotified, notifiedTxHashes,
                   utxoPopulated, chain, typed, cmds, pc, tick, msgs, hist>>

\* the upsert of the Paid Subscription; redeemCode returns success and
\* redeemCommand authorizes the chat
RedeemUpsert(i) ==
    /\ pc = "idle"
    /\ calls[i].pc = "upsert"
    /\ paidSubs' = [paidSubs EXCEPT ![calls[i].chatId] = calls[i].code]
    /\ paidLive' = paidLive \cup {calls[i].chatId}
    /\ authorizedChats' = authorizedChats \cup {calls[i].chatId}
    /\ calls' = [calls EXCEPT ![i] = [@ EXCEPT !.pc = "done", !.result = "success"]]
    /\ session' = [session EXCEPT
                     !.notices[calls[i].chatId] = 0,
                     !.renewed = IF session.notices[calls[i].chatId] > 0
                                 THEN @ \cup {calls[i].chatId} ELSE @]
    /\ lastOp' = NoOp
    /\ UNCHANGED <<accessCodes, poller>>
    /\ expiry' = [expiry EXCEPT !.expiresAt[calls[i].chatId] = ExpiresAt(expiry.now, calls[i].code)]
    /\ file' = IF calls[i].chatId \in authorizedChats THEN file ELSE ScheduleSave(file)
    /\ UNCHANGED <<subscriptions, lastProcessedBlock, utxos, tokenSubscriptions,
                   expiredNotified, notifiedTxHashes, utxoPopulated, chain, typed, cmds,
                   pc, tick, msgs, hist>>

(***************************************************************************)
(* BlockPoller.processNewBlocks                                            *)
(***************************************************************************)
Since(saved) == IF saved # Null THEN Max(1, saved + 1) ELSE 1

\* the test that lets a tick write the cursor whatever the indexer reports
NothingNewNever(saved, lastIndexedBlock) == FALSE

\* savedLastBlock !== null && lastIndexedBlock <= savedLastBlock
NothingNew(saved, lastIndexedBlock) == saved # Null /\ lastIndexedBlock <= saved

\* fetchEvents throws: the tick ends
TickIndexerDown ==
    /\ pc = "idle"
    /\ hist' = NoHist
    /\ lastOp' = NoOp
    /\ UNCHANGED <<redeemVars, poller, session>>
    /\ UNCHANGED expiry
    /\ UNCHANGED file
    /\ UNCHANGED <<subscriptions, lastProcessedBlock, utxos, authorizedChats,
                   tokenSubscriptions, paidLive, expiredNotified, notifiedTxHashes,
                   utxoPopulated, chain, typed, cmds, pc, tick, msgs>>

TickNothingNew(lastIndexedBlock) ==
    /\ pc = "idle"
    /\ NothingNew(lastProcessedBlock, lastIndexedBlock)
    /\ hist' = NoHist
    /\ lastOp' = NoOp
    /\ UNCHANGED <<redeemVars, poller, session>>
    /\ UNCHANGED expiry
    /\ UNCHANGED file
    /\ UNCHANGED <<subscriptions, lastProcessedBlock, utxos, authorizedChats,
                   tokenSubscriptions, paidLive, expiredNotified, notifiedTxHashes,
                   utxoPopulated, chain, typed, cmds, pc, tick, msgs>>

TickNoTracked(lastIndexedBlock) ==
    /\ pc = "idle"
    /\ ~NothingNew(lastProcessedBlock, lastIndexedBlock)
    /\ GetAllTrackedAddresses(subscriptions) = <<>>
    /\ lastProcessedBlock' = lastIndexedBlock
    /\ hist' = [NoHist EXCEPT !.wrote = TRUE, !.from = lastProcessedBlock]
    /\ lastOp' = NoOp
    /\ UNCHANGED <<redeemVars, poller, session>>
    /\ UNCHANGED expiry
    /\ file' = ScheduleSave(file)
    /\ UNCHANGED <<subscriptions, utxos, authorizedChats,
                   tokenSubscriptions, paidLive, expiredNotified, notifiedTxHashes,
                   utxoPopulated, chain, typed, cmds, pc, tick, msgs>>

\* the addresses populateUTXOs is about to query
SeedQueried(subs, populated, primaryAddrs) ==
    UNION {SeqToSet(SeedAddresses(subs, a)) : a \in SeqToSet(primaryAddrs) \ populated}

\* The tick up to the start of the BTC scan loop.  down: the chats to which
\* the sends of this tick fail.
TickStart(lastIndexedBlock, down) ==
    LET saved == lastProcessedBlock
        since == Since(saved)
        indexerData == FetchEvents(chain, since, lastIndexedBlock)
        trackedAddrs == GetAllTrackedAddresses(subscriptions)
        data0 == GetExpandedAddressData(subscriptions)
        unresolved == {a \in SeqToSet(trackedAddrs) : ~MldsaHas(data0.mldsaMap, a)}
    IN /\ pc = "idle"
       /\ ~NothingNew(saved, lastIndexedBlock)
       /\ trackedAddrs # <<>>
       /\ \E rpc \in [unresolved -> RpcResults] :
            LET r == ResolveAndCacheLinked(subscriptions, trackedAddrs, data0, rpc)
                queried == SeedQueried(r.subs, utxoPopulated, trackedAddrs)
            IN \E failing \in {{}, queried} :
               \E view \in (IF queried = {} THEN {lastIndexedBlock}
                            ELSE {lastIndexedBlock, MaxHeight}) :
                 LET table == PopulateUTXOs(utxos, r.subs, utxoPopulated, trackedAddrs,
                                            chain, view, failing)
                     lastProcessed == IF saved # Null THEN saved ELSE since - 1
                 IN /\ ~MatchTransfersThrows(indexerData.transfers, r.data.mldsaMap)
                    /\ subscriptions' = r.subs
                    /\ utxos' = table
                    /\ utxoPopulated' = utxoPopulated \cup SeqToSet(trackedAddrs)
                    /\ tick' =
                        [NoTick EXCEPT
                            !.saved = saved, !.since = since, !.last = lastIndexedBlock,
                            !.down = down,
                            !.height = Max(1, lastProcessed + 1),
                            !.trackedSet = r.data.trackedSet,
                            !.canonicalMap = r.data.canonicalMap,
                            !.utxoMap = BuildUTXOMap(table),
                            !.tokenEvents =
                                MatchTransfers(indexerData.transfers, r.data.mldsaMap,
                                               NftContractSet),
                            !.reservationEvents =
                                MatchReservations(indexerData.reservations, r.data.mldsaMap,
                                                  r.data.trackedSet, r.data.canonicalMap),
                            !.swapEvents =
                                MatchSwaps(indexerData.swaps, r.data.mldsaMap,
                                           r.data.trackedSet, r.data.canonicalMap),
                            !.poolEvents =
                                MatchPoolEvents(indexerData.poolEvents, r.data.mldsaMap),
                            !.stakingEvents =
                                MatchStakingEvents(indexerData.stakingEvents, r.data.mldsaMap),
                            !.priceChanges = indexerData.priceChanges]
                    /\ hist' =
                        [NoHist EXCEPT
                            !.malformed = HasMalformed(indexerData),
                            !.asked = unresolved,
                            !.skipped = {a \in unresolved :
                                            ResolveOutcome(a, rpc[a]) = NoLink},
                            !.mldsaKeys = {r.data.mldsaMap[i].addr :
                                            i \in DOMAIN r.data.mldsaMap}]
       /\ pc' = "scan"
       /\ msgs' = {}
       /\ lastOp' = NoOp
       /\ UNCHANGED <<redeemVars, poller, session>>
       /\ UNCHANGED expiry
       /\ file' = IF <<subscriptions, utxos>>' # <<subscriptions, utxos>>
                  THEN ScheduleSave(file) ELSE file
       /\ UNCHANGED <<lastProcessedBlock, authorizedChats, tokenSubscriptions, paidLive,
                      expiredNotified, notifiedTxHashes, chain, typed, cmds>>

\* The tick whose matchTransfers call throws: the linkage and the seeded UTXOs
\* are stored by then, processNewBlocks throws, poll() logs the error and the
\* cursor is not written.
TickMatchThrows(lastIndexedBlock) ==
    LET saved == lastProcessedBlock
        indexerData == FetchEvents(chain, Since(saved), lastIndexedBlock)
        trackedAddrs == GetAllTrackedAddresses(subscriptions)
        data0 == GetExpandedAddressData(subscriptions)
        unresolved == {a \in SeqToSet(trackedAddrs) : ~MldsaHas(data0.mldsaMap, a)}
    IN /\ pc = "idle"
       /\ ~NothingNew(saved, lastIndexedBlock)
       /\ trackedAddrs # <<>>
       /\ \E rpc \in [unresolved -> RpcResults] :
            LET r == ResolveAndCacheLinked(subscriptions, trackedAddrs, data0, rpc)
            IN /\ MatchTransfersThrows(indexerData.transfers, r.data.mldsaMap)
               /\ subscriptions' = r.subs
               /\ utxos' = PopulateUTXOs(utxos, r.subs, utxoPopulated, trackedAddrs,
                                         chain, lastIndexedBlock, {})
       /\ utxoPopulated' = utxoPopulated \cup SeqToSet(trackedAddrs)
       /\ msgs' = {}
       /\ hist' = [NoHist EXCEPT !.malformed = TRUE, !.aborted = TRUE, !.from = saved]
       /\ lastOp' = NoOp
       /\ UNCHANGED <<redeemVars, poller, session>>
       /\ UNCHANGED expiry
       /\ file' = IF <<subscriptions, utxos>>' # <<subscriptions, utxos>>
                  THEN ScheduleSave(file) ELSE file
       /\ UNCHANGED <<lastProcessedBlock, authorizedChats, tokenSubscriptions, paidLive,
                      expiredNotified, notifiedTxHashes, chain, typed, cmds, pc, tick>>

RECURSIVE RemoveAllUTXOs(_, _, _)
RemoveAllUTXOs(table, spentUTXOKeys, i) ==
    IF i > Len(spentUTXOKeys) THEN table
    ELSE RemoveAllUTXOs(RemoveUTXO(table, spentUTXOKeys[i][1], spentUTXOKeys[i][2]),
                        spentUTXOKeys, i + 1)

RECURSIVE AddAllUTXOs(_, _, _)
AddAllUTXOs(table, receivedUTXOs, i) ==
    IF i > Len(receivedUTXOs) THEN table
    ELSE AddAllUTXOs(AddUTXO(table, receivedUTXOs[i].primaryAddress, receivedUTXOs[i].txid,
                             receivedUTXOs[i].vout, receivedUTXOs[i].value),
                     receivedUTXOs, i + 1)

\* the tick's map after the delta of one block
UpdateUTXOMap(utxoMap, spentUTXOKeys, receivedUTXOs) ==
    LET gone == SeqToSet(spentUTXOKeys)
        new == {<<receivedUTXOs[i].txid, receivedUTXOs[i].vout>> : i \in DOMAIN receivedUTXOs}
        last(k) == CHOOSE i \in DOMAIN receivedUTXOs :
                      /\ <<receivedUTXOs[i].txid, receivedUTXOs[i].vout>> = k
                      /\ \A j \in DOMAIN receivedUTXOs :
                            <<receivedUTXOs[j].txid, receivedUTXOs[j].vout>> = k => j <= i
    IN [k \in ((DOMAIN utxoMap) \ gone) \cup new |->
            IF k \in new
            THEN [primaryAddress |-> receivedUTXOs[last(k)].primaryAddress,
                  value |-> receivedUTXOs[last(k)].value]
            ELSE utxoMap[k]]

\* one pass of the scan loop whose block was read
TickScanBlock ==
    LET height == tick.height
        r == ScanBlock(BlockTxs(height, chain[height]), height,
                       tick.trackedSet, tick.canonicalMap, tick.utxoMap)
    IN /\ pc = "scan"
       /\ height <= tick.last
       /\ utxos' = AddAllUTXOs(RemoveAllUTXOs(utxos, r.spentUTXOKeys, 1), r.receivedUTXOs, 1)
       /\ tick' = [tick EXCEPT
                     !.height = height + 1,
                     !.utxoMap = UpdateUTXOMap(@, r.spentUTXOKeys, r.receivedUTXOs),
                     !.btcEvents = @ \o r.events,
                     !.allInferredSends = @ \o r.inferredSends]
       /\ lastOp' = NoOp
       /\ UNCHANGED <<redeemVars, poller, session>>
       /\ UNCHANGED expiry
       /\ file' = IF utxos' # utxos THEN ScheduleSave(file) ELSE file
       /\ UNCHANGED <<subscriptions, lastProcessedBlock, authorizedChats,
                      tokenSubscriptions, paidLive, expiredNotified, notifiedTxHashes,
                      utxoPopulated, chain, typed, cmds, pc, msgs, hist>>

\* one pass of the scan loop whose block could not be read
TickScanFailed ==
    /\ pc = "scan"
    /\ tick.height <= tick.last
    /\ msgs' = ScanFailedFrom(msgs, authorizedChats, tick.height, tick.down)
    /\ tick' = [tick EXCEPT
                  !.height = @ + 1,
                  !.readFailed = TRUE,
                  !.sendFailed = @ \/ (authorizedChats \cap tick.down # {})]
    /\ lastOp' = NoOp
    /\ UNCHANGED <<redeemVars, poller, session>>
    /\ UNCHANGED expiry
    /\ UNCHANGED file
    /\ UNCHANGED <<subscriptions, lastProcessedBlock, utxos, authorizedChats,
                   tokenSubscriptions, paidLive, expiredNotified, notifiedTxHashes,
                   utxoPopulated, chain, typed, cmds, pc, hist>>


\* the suppression set as the specification words it, over the tick's events
SuppressionSetOf(allEvents) ==
    AddrBlocks(SelectSeq(allEvents, LAMBDA ev :
        ev.type \in {"swap_executed", "liquidity_reserved", "liquidity_added",
                     "liquidity_removed", "staked", "unstaked", "rewards_claimed"}))
    \cup (AddrBlocks(SelectSeq(allEvents, LAMBDA ev : ev.type = "token" /\ ev.direction = "in"))
          \cap AddrBlocks(SelectSeq(allEvents, LAMBDA ev :
                                ev.type = "token" /\ ev.direction = "out")))

\* the block height of the group of events a message renders
GroupHeight(events, address, txHash) ==
    LET i == CHOOSE i \in DOMAIN events :
                /\ events[i].address = address /\ events[i].txHash = txHash
                /\ \A j \in 1..(i - 1) :
                        ~(events[j].address = address /\ events[j].txHash = txHash)
    IN events[i].blockHeight

\* the block heights of the event messages a notify call sends, in send order
SentHeights(events, subs, paid) ==
    LET live == SelectSeq(NotifyTargets(events, subs), LAMBDA t :
                    HasActiveSubscription(paid, t.chatId))
    IN [i \in DOMAIN live |-> GroupHeight(events, live[i].address, live[i].txHash)]

\* the expiry notices among the messages sent between two points, per chat
NoticesSent(before, after) ==
    [c \in Chats |-> Cardinality({m \in after \ before : m.kind = "expiry" /\ m.chat = c})]

\* what an observer compares of an event: type, address, tx hash and amount
EventView(ev) == <<ev.type, ev.address, ev.txHash, ev.satoshis>>

\* the stored UTXO set
UtxoView(table) ==
    UNION {{<<table[i].addr, table[i].list[j].txid, table[i].list[j].vout,
              table[i].list[j].value>> : j \in DOMAIN table[i].list} : i \in DOMAIN table}

\* the events of the tick after promotion, merge, dedup and suppression
TickKept(t) ==
    LET btcEvents == PromoteInferredSends(t.btcEvents, t.allInferredSends)
        allEvents == t.tokenEvents \o t.reservationEvents \o t.swapEvents
                     \o t.poolEvents \o t.stakingEvents \o btcEvents
        suppress == SuppressBtcAddrBlocks(t.tokenEvents, t.reservationEvents,
                                          t.swapEvents, t.poolEvents, t.stakingEvents)
    IN [allEvents |-> allEvents,
        dedupedEvents |-> DedupEvents(allEvents),
        kept |-> SuppressBtc(DedupEvents(allEvents), suppress)]

\* the tick from the end of the scan loop to the price alerts
TickDispatch ==
    LET down == tick.down
        k == TickKept(tick)
        newEvents == FilterNotified(k.kept, notifiedTxHashes)
        n == IF newEvents # <<>>
             THEN Notify(newEvents, subscriptions, paidLive, expiredNotified, msgs, down)
             ELSE [expiredNotified |-> expiredNotified, msgs |-> msgs]
        sent == ProcessPriceChanges(tick.priceChanges, tokenSubscriptions, n.msgs, down)
        targets == NotifyTargets(k.kept, subscriptions)
        heights == SentHeights(newEvents, subscriptions, paidLive)
        notices == NoticesSent(msgs, n.msgs)
    IN /\ pc = "scan"
       /\ tick.height > tick.last
       /\ expiredNotified' = n.expiredNotified
       /\ notifiedTxHashes' = IF newEvents # <<>>
                              THEN RememberNotified(notifiedTxHashes, newEvents)
                              ELSE notifiedTxHashes
       /\ msgs' = sent
       /\ pc' = "write"
       /\ hist' = [NoHist EXCEPT
                     !.owed = {<<targets[i].chatId, targets[i].address, targets[i].txHash>> :
                                i \in {j \in DOMAIN targets :
                                        HasActiveSubscription(paidLive, targets[j].chatId)}},
                     !.handed = SeqToSet(newEvents),
                     !.S = SuppressionSetOf(k.allEvents),
                     !.suppressed = SeqToSet(k.dedupedEvents) \ SeqToSet(k.kept),
                     !.readFailed = tick.readFailed,
                     !.sendFailed = tick.sendFailed \/ (\E m \in sent \ msgs : ~m.ok),
                     !.from = tick.saved,
                     !.dispatched = TRUE,
                     !.produced = SeqToSet(k.kept),
                     !.sentHeights = heights,
                     !.prevHeight = session.lastHeight,
                     !.rehanded = {newEvents[i].txHash : i \in DOMAIN newEvents}
                                  \cap session.handedTx]
       /\ session' = [session EXCEPT
                        !.handedTx = @ \cup {newEvents[i].txHash : i \in DOMAIN newEvents},
                        !.notices = [c \in Chats |-> @[c] + notices[c]],
                        !.lastHeight = IF heights = <<>> THEN @ ELSE heights[Len(heights)]]
       /\ lastOp' = NoOp
       /\ UNCHANGED <<redeemVars, poller>>
       /\ UNCHANGED expiry
       /\ UNCHANGED file
       /\ UNCHANGED <<subscriptions, lastProcessedBlock, utxos, authorizedChats,
                      tokenSubscriptions, paidLive, utxoPopulated, chain, typed, cmds, tick>>

\* what a tick that ends without writing the cursor leaves for comparison
\* with its re-run: its range, the Subscriptions, the events it produced and
\* the stored UTXO set
Interrupted(t, subs, table) ==
    [set |-> TRUE, from |-> t.saved, last |-> t.last, subs |-> subs,
     events |-> {EventView(ev) : ev \in SeqToSet(TickKept(t).kept)},
     utxos |-> UtxoView(table)]

\* notify throws: hasActiveSubscription rejects for the k-th subscriber it
\* visits (a document-store error outside any try).  The sends made before it
\* stay made, processNewBlocks throws, poll() logs; nothing is added to
\* notifiedTxHashes and the cursor is not written.
TickNotifyThrows(k) ==
    LET kept == TickKept(tick).kept
        newEvents == FilterNotified(kept, notifiedTxHashes)
        targets == NotifyTargets(newEvents, subscriptions)
        n == NotifyFrom([expiredNotified |-> expiredNotified, msgs |-> msgs],
                        SubSeq(targets, 1, k - 1), paidLive, tick.down, 1)
        hashes == {newEvents[i].txHash : i \in DOMAIN newEvents}
    IN /\ pc = "scan"
       /\ tick.height > tick.last
       /\ session.aborts < MaxAborts
       /\ k \in DOMAIN targets
       /\ expiredNotified' = n.expiredNotified
       /\ msgs' = n.msgs
       /\ pc' = "idle"
       /\ tick' = NoTick
       /\ hist' = [NoHist EXCEPT !.aborted = TRUE, !.from = tick.saved,
                                 !.handed = SeqToSet(newEvents),
                                 !.produced = SeqToSet(kept),
                                 !.rehanded = hashes \cap session.handedTx]
       /\ session' = [session EXCEPT
                        !.handedTx = @ \cup hashes,
                        !.notices = [c \in Chats |-> @[c] + NoticesSent(msgs, n.msgs)[c]],
                        !.replay = Interrupted(tick, subscriptions, utxos),
                        !.aborts = @ + 1]
       /\ lastOp' = NoOp
       /\ UNCHANGED <<redeemVars, poller>>
       /\ UNCHANGED expiry
       /\ UNCHANGED file
       /\ UNCHANGED <<subscriptions, lastProcessedBlock, utxos, authorizedChats,
                      tokenSubscriptions, paidLive, notifiedTxHashes, utxoPopulated,
                      chain, typed, cmds>>

\* The process dies between the end of the scan loop and the cursor write and
\* is started again: the Store is kept, the sets the poller and the Notifier
\* hold in memory are empty again.
Crash ==
    /\ \/ pc = "scan" /\ tick.height > tick.last
       \/ pc = "write"
    /\ session.aborts < MaxAborts
    /\ expiredNotified' = {}
    /\ notifiedTxHashes' = <<>>
    /\ utxoPopulated' = {}
    /\ pc' = "idle"
    /\ tick' = NoTick
    /\ hist' = [NoHist EXCEPT !.aborted = TRUE, !.from = tick.saved]
    /\ session' = [NoSession EXCEPT
                     !.replay = Interrupted(tick, subscriptions, utxos),
                     !.aborts = session.aborts + 1]
    /\ lastOp' = NoOp
    /\ UNCHANGED <<redeemVars, poller>>
    /\ UNCHANGED expiry
    /\ file' = [file EXCEPT !.saveTimer = FALSE, !.lastProcessedBlock = lastProcessedBlock]
    /\ UNCHANGED <<subscriptions, lastProcessedBlock, utxos, authorizedChats,
                   tokenSubscriptions, paidLive, chain, typed, cmds, msgs>>

\* walletRepo.setLastProcessedBlock(lastIndexedBlock) at the end of the tick
TickWriteCursor ==
    /\ pc = "write"
    /\ lastProcessedBlock' = tick.last
    /\ pc' = "idle"
    /\ tick' = NoTick
    /\ hist' = [hist EXCEPT !.wrote = TRUE]
    /\ session' = [session EXCEPT !.replay = [set |-> FALSE]]
    /\ lastOp' = NoOp
    /\ UNCHANGED <<redeemVars, poller>>
    /\ UNCHANGED expiry
    /\ file' = ScheduleSave(file)
    /\ UNCHANGED <<subscriptions, utxos, authorizedChats, tokenSubscriptions, paidLive,
                   expiredNotified, notifiedTxHashes, utxoPopulated, chain, typed, cmds, msgs>>

\* The save timer fires: the Store in memory is written to the file.  The
\* promise of writeFile is dropped (void): when the write fails the file keeps
\* what it held and nothing in the process learns of it.
SaveFires(ok) ==
    /\ file.saveTimer
    /\ UNCHANGED expiry
    /\ file' = IF ok
               THEN [saveTimer |-> FALSE, lastProcessedBlock |-> lastProcessedBlock,
                     failed |-> FALSE]
               ELSE [file EXCEPT !.saveTimer = FALSE, !.failed = TRUE]
    /\ UNCHANGED <<redeemVars, poller, session>>
    /\ UNCHANGED <<subscriptions, lastProcessedBlock, utxos, authorizedChats,
                   tokenSubscriptions, paidLive, expiredNotified, notifiedTxHashes,
                   utxoPopulated, chain, typed, cmds, pc, tick, msgs, hist, lastOp>>

(***************************************************************************)
(* BlockPoller.start / stop / poll.  Each action is one synchronous run of *)
(* code between two awaits; poller.polls counts the executions of          *)
(* processNewBlocks that poll() is awaiting, poller.pending holds the      *)
(* timers the event loop has yet to fire, poller.timer is this.timer       *)
(* (0 for undefined).                                                      *)
(***************************************************************************)
\* a poll() that does not look at this.running
PollEnterAlways(p) == [p EXCEPT !.polls = @ + 1]

\* poll() up to its await: returns at once unless running
PollEnter(p) == IF p.running THEN [p EXCEPT !.polls = @ + 1] ELSE p

\* a timer id setTimeout has not handed out among those still known
FreshTimers(p) == (1..MaxTimers) \ (p.pending \cup {p.timer})

\* start(): this.running = true, then poll()
PollerStart ==
    /\ poller.polls < MaxPolls
    /\ poller' = PollEnter([poller EXCEPT !.running = TRUE])
    /\ lastOp' = NoOp
    /\ UNCHANGED <<redeemVars, session>>
    /\ UNCHANGED expiry
    /\ UNCHANGED file
    /\ UNCHANGED <<subscriptions, lastProcessedBlock, utxos, authorizedChats,
                   tokenSubscriptions, paidLive, expiredNotified, notifiedTxHashes,
                   utxoPopulated, chain, typed, cmds, pc, tick, msgs, hist>>

\* stop(): this.running = false; a timer held in this.timer is cleared
PollerStop ==
    /\ poller' = [poller EXCEPT !.running = FALSE,
                                !.pending = IF poller.timer # 0 THEN @ \ {poller.timer} ELSE @,
                                !.timer = 0]
    /\ lastOp' = NoOp
    /\ UNCHANGED <<redeemVars, session>>
    /\ UNCHANGED expiry
    /\ UNCHANGED file
    /\ UNCHANGED <<subscriptions, lastProcessedBlock, utxos, authorizedChats,
                   tokenSubscriptions, paidLive, expiredNotified, notifiedTxHashes,
                   utxoPopulated, chain, typed, cmds, pc, tick, msgs, hist>>

\* the callback of a pending timer: () => void this.poll()
PollerTimerFires(id) ==
    /\ id \in poller.pending
    /\ poller.running => poller.polls < MaxPolls
    /\ poller' = PollEnter([poller EXCEPT !.pending = @ \ {id}])
    /\ lastOp' = NoOp
    /\ UNCHANGED <<redeemVars, session>>
    /\ UNCHANGED expiry
    /\ UNCHANGED file
    /\ UNCHANGED <<subscriptions, lastProcessedBlock, utxos, authorizedChats,
                   tokenSubscriptions, paidLive, expiredNotified, notifiedTxHashes,
                   utxoPopulated, chain, typed, cmds, pc, tick, msgs, hist>>

\* processNewBlocks settles (returns or throws: the catch only logs) and
\* poll() goes on: a new timer if running
PollerPollReturns ==
    /\ poller.polls > 0
    /\ IF poller.running
       THEN \E id \in FreshTimers(poller) :
                poller' = [poller EXCEPT !.polls = @ - 1, !.timer = id,
                                         !.pending = @ \cup {id}]
       ELSE poller' = [poller EXCEPT !.polls = @ - 1]
    /\ lastOp' = NoOp
    /\ UNCHANGED <<redeemVars, session>>
    /\ UNCHANGED expiry
    /\ UNCHANGED file
    /\ UNCHANGED <<subscriptions, lastProcessedBlock, utxos, authorizedChats,
                   tokenSubscriptions, paidLive, expiredNotified, notifiedTxHashes,
                   utxoPopulated, chain, typed, cmds, pc, tick, msgs, hist>>

(***************************************************************************)
(* Specifications                                                          *)
(***************************************************************************)
\* the chat platform answers every send of a tick, or none
Outages == {{}, Chats}

Next ==
    \/ \E cmd \in typed, rpc \in RpcResults : TrackCommand(cmd[1], cmd[2], rpc)
    \/ \E cmd \in typed : UntrackCommand(cmd[1], cmd[2])
    \/ \E chatId \in Chats : Expire(chatId)
    \/ TickIndexerDown
    \/ \E lastIndexedBlock \in 1..MaxHeight : TickNothingNew(lastIndexedBlock)
    \/ \E lastIndexedBlock \in 1..MaxHeight : TickNoTracked(lastIndexedBlock)
    \/ \E lastIndexedBlock \in 1..MaxHeight, down \in Outages :
            TickStart(lastIndexedBlock, down)
    \/ TickScanBlock
    \/ TickScanFailed
    \/ TickDispatch
    \/ TickWriteCursor

\* runs in which every block read and every send succeeds and no paid
\* subscription runs out
NextStore ==
    \/ \E cmd \in typed, rpc \in RpcResults : TrackCommand(cmd[1], cmd[2], rpc)
    \/ \E cmd \in typed : UntrackCommand(cmd[1], cmd[2])
    \/ \E lastIndexedBlock \in 1..MaxHeight : TickNothingNew(lastIndexedBlock)
    \/ \E lastIndexedBlock \in 1..MaxHeight : TickNoTracked(lastIndexedBlock)
    \/ \E lastIndexedBlock \in 1..MaxHeight : TickStart(lastIndexedBlock, {})
    \/ TickScanBlock
    \/ TickDispatch
    \/ TickWriteCursor

\* the pipeline over chains that carry transactions and indexer records
Spec == Init /\ [][Next]_vars

\* the store under commands and resolver updates, over more address forms
SpecStore == InitStore /\ [][NextStore]_vars


\* no chat has redeemed a code or been authorized yet
InitRedeem ==
    /\ subscriptions = <<>>
    /\ lastProcessedBlock = Null
    /\ utxos = <<>>
    /\ authorizedChats = {}
    /\ tokenSubscriptions = <<>>
    /\ paidLive = {}
    /\ expiredNotified = {}
    /\ notifiedTxHashes = <<>>
    /\ utxoPopulated = {}
    /\ chain = QuietChain
    /\ typed = {}
    /\ cmds = 0
    /\ pc = "idle"
    /\ tick = NoTick
    /\ msgs = {}
    /\ hist = NoHist
    /\ lastOp = NoOp
    /\ accessCodes = [FreshCodes EXCEPT !["JTA"] = AccessCodeDoc(TRUE, 0, FALSE)]
    /\ paidSubs = [c \in Chats |-> None]
    /\ calls = [i \in 1..MaxCalls |-> NoCall]
    /\ poller = NoPoller
    /\ session = NoSession
    /\ file = NoFile
    /\ expiry = NoExpiry

NextRedeem ==
    \/ \E i \in 1..MaxCalls, chatId \in Chats, code \in TypedCodes :
            RedeemCommand(i, chatId, code)
    \/ \E i \in 1..MaxCalls : RedeemFind(i)
    \/ \E i \in 1..MaxCalls : RedeemMark(i)
    \/ \E i \in 1..MaxCalls : RedeemUpsert(i)

\* /redeem calls of two chats, interleaved at the awaits of redeemCode
SpecRedeem == InitRedeem /\ [][NextRedeem]_vars

InitPoll ==
    /\ InitCommon
    /\ chain = QuietChain
    /\ typed = {}
    /\ cmds = 0

NextPoll ==
    \/ PollerStart
    \/ PollerStop
    \/ \E id \in 1..MaxTimers : PollerTimerFires(id)
    \/ PollerPollReturns

\* start(), stop(), timer callbacks and the settling of processNewBlocks, in any order
SpecPoll == InitPoll /\ [][NextPoll]_vars

InitReplay ==
    /\ InitCommon
    /\ chain \in Chains
    /\ typed = {<<1, "T1">>, <<2, "T1">>}
    /\ cmds = MaxCmds

NextReplay ==
    \/ \E cmd \in typed : TrackCommand(cmd[1], cmd[2], "ok")
    \/ \E lastIndexedBlock \in 1..MaxHeight : TickNothingNew(lastIndexedBlock)
    \/ \E lastIndexedBlock \in 1..MaxHeight : TickStart(lastIndexedBlock, {})
    \/ TickScanBlock
    \/ TickDispatch
    \/ TickWriteCursor
    \/ \E k \in 1..2 : TickNotifyThrows(k)
    \/ Crash

\* ticks that end before the cursor write, by a thrown error or a crash, and
\* the ticks that follow them
SpecReplay == InitReplay /\ [][NextReplay]_vars

\* a chain whose indexer batch holds a transfer with an unparsable amount
\* from block 2 on
MalformedChain == [h \in 1..MaxHeight |-> IF h = 1 THEN "tokenin" ELSE "badtoken"]

InitMalformed ==
    /\ InitCommon
    /\ chain = MalformedChain
    /\ typed = {<<1, "T1">>, <<2, "T2">>}
    /\ cmds = MaxCmds

NextMalformed ==
    \/ \E cmd \in typed, rpc \in RpcResults : TrackCommand(cmd[1], cmd[2], rpc)
    \/ \E lastIndexedBlock \in 1..MaxHeight : TickNothingNew(lastIndexedBlock)
    \/ \E lastIndexedBlock \in 1..MaxHeight : TickStart(lastIndexedBlock, {})
    \/ \E lastIndexedBlock \in 1..MaxHeight : TickMatchThrows(lastIndexedBlock)
    \/ TickScanBlock
    \/ TickDispatch
    \/ TickWriteCursor

\* ticks over batches that hold a malformed transfer record
SpecMalformed == InitMalformed /\ [][NextMalformed]_vars

\* a chain with a token trade of the tracked wallet in every block
GateChain == [h \in 1..MaxHeight |-> "trade"]

InitGate ==
    /\ InitCommon
    /\ chain = GateChain
    /\ typed = {<<1, "T1">>, <<2, "T1">>}
    /\ cmds = MaxCmds

NextGate ==
    \/ \E cmd \in typed : TrackCommand(cmd[1], cmd[2], "ok")
    \/ \E chatId \in Chats : Expire(chatId)
    \/ \E chatId \in Chats : RevokeCommand(chatId)
    \/ \E chatId \in Chats : RedeemCommand(1, chatId, "JT1")
    \/ RedeemFind(1)
    \/ RedeemMark(1)
    \/ RedeemUpsert(1)
    \/ \E lastIndexedBlock \in 1..MaxHeight : TickStart(lastIndexedBlock, {})
    \/ TickScanBlock
    \/ TickDispatch
    \/ TickWriteCursor

\* one process lifetime in which paid subscriptions run out and are renewed
\* and chats are revoked, between ticks whose reads and sends succeed
SpecGate == InitGate /\ [][NextGate]_vars

InitDurable ==
    /\ InitCommon
    /\ chain = GateChain
    /\ typed = {<<1, "T1">>}
    /\ cmds = MaxCmds

NextDurable ==
    \/ \E cmd \in typed : TrackCommand(cmd[1], cmd[2], "ok")
    \/ \E lastIndexedBlock \in 1..MaxHeight : TickNothingNew(lastIndexedBlock)
    \/ \E lastIndexedBlock \in 1..MaxHeight : TickNoTracked(lastIndexedBlock)
    \/ \E lastIndexedBlock \in 1..MaxHeight : TickStart(lastIndexedBlock, {})
    \/ TickScanBlock
    \/ TickDispatch
    \/ TickWriteCursor
    \/ \E ok \in BOOLEAN : SaveFires(ok)

\* ticks and the debounced saves of the Store, which succeed or fail
SpecDurable == InitDurable /\ [][NextDurable]_vars

(***************************************************************************)
(* Properties                                                              *)
(***************************************************************************)
SuccessfulSends(chatId, address, txHash) ==
    {m \in msgs : /\ m.kind = "event" /\ m.ok
                  /\ m.chat = chatId /\ m.address = address /\ m.txHash = txHash}

\* C1: once a tick has advanced the cursor, every event of its blocks that
\* survived dedup and suppression has produced exactly one successful
\* sendMessage to every chat that tracks its address and has a live paid
\* subscription.
C1_DispatchedExactlyOnce ==
    hist.wrote => \A o \in hist.owed : Cardinality(SuccessfulSends(o[1], o[2], o[3])) = 1

\* C2: a write to the cursor never stores a value lower than the one it
\* replaces (Null, the cursor never written, counts as below every height).
C2_CursorMonotonic == [][lastProcessedBlock' >= lastProcessedBlock]_vars

\* a tick has replaced a cursor that held a height
C2_Witness == hist.wrote /\ hist.from # Null /\ lastProcessedBlock > hist.from

\* C3: a tick in which a block read or a send failed does not write the cursor.
C3_NoCursorWriteAfterFailure == (hist.readFailed \/ hist.sendFailed) => ~hist.wrote

\* C4: every message the pipeline sends follows a positive
\* hasActiveSubscription answer for its chat, or is the expiry notice.
C4_EveryMessageGated == \A m \in msgs : m.gated \/ m.kind = "expiry"

\* C5: no btc_sent or btc_received event is handed to the Notifier if its
\* (address, blockHeight) is in the suppression set of that tick.
C5_SuppressedBtcNotHanded ==
    \A ev \in hist.handed : IsBtc(ev) => <<ev.address, ev.blockHeight>> \notin hist.S

\* a tick dropped a BTC event for the suppression set and handed other events on
C5_Witness ==
    /\ \E ev \in hist.suppressed : IsBtc(ev) /\ <<ev.address, ev.blockHeight>> \in hist.S
    /\ hist.handed # {}

\* C6: no chat has two Subscriptions whose identity linkage carries the same
\* mldsaHash.
C6_OneSubscriptionPerIdentity ==
    \A i, j \in DOMAIN subscriptions :
        (/\ i # j
         /\ subscriptions[i].chatId = subscriptions[j].chatId
         /\ subscriptions[i].linked.mldsaHash # None)
        => subscriptions[i].linked.mldsaHash # subscriptions[j].linked.mldsaHash

StoredKeys ==
    UNION {{<<utxos[i].list[j].txid, utxos[i].list[j].vout>> : j \in DOMAIN utxos[i].list} :
            i \in DOMAIN utxos}

\* C7: after a tick that advanced the cursor to L, no stored UTXO is spent by
\* a transaction of a block <= L.
C7_NoSpentUTXOStored ==
    (pc = "idle" /\ hist.wrote)
    => StoredKeys \cap SpentKeysUpTo(chain, lastProcessedBlock) = {}

\* C8: no (txid, vout) appears twice in the stored UTXO set, under one primary
\* address or under two.
C8_UTXOKeysUnique ==
    \A i, k \in DOMAIN utxos :
        \A j \in DOMAIN utxos[i].list, l \in DOMAIN utxos[k].list :
            (/\ utxos[i].list[j].txid = utxos[k].list[l].txid
             /\ utxos[i].list[j].vout = utxos[k].list[l].vout)
            => (i = k /\ j = l)

\* C9: each key of the UTXO table that holds UTXOs is the primary address of
\* an existing Subscription.
C9_UTXOKeysAreSubscribed ==
    \A i \in DOMAIN utxos :
        utxos[i].list # <<>>
        => \E k \in DOMAIN subscriptions : subscriptions[k].address = utxos[i].addr

Keys(subs) == [i \in DOMAIN subs |-> <<subs[i].chatId, subs[i].address>>]

UniquePerChatAddress ==
    \A i, j \in DOMAIN subscriptions :
        Keys(subscriptions)[i] = Keys(subscriptions)[j] => i = j

WithinLimit ==
    \A c \in Chats : Len(UserSubs(subscriptions, c)) <= MaxPerUser

AddAnswerRight ==
    /\ (lastOp'.op = "track" /\ lastOp'.result = "added")
        => Keys(subscriptions') =
                Append(Keys(subscriptions), <<lastOp'.chatId, lastOp'.address>>)
    /\ (lastOp'.op = "track" /\ lastOp'.result \in {"duplicate", "limit_exceeded"})
        => subscriptions' = subscriptions

\* C10: Subscriptions are unique per (chatId, address) and no chat holds more
\* than maxPerUser; 'added' is answered exactly when one Subscription was
\* inserted, and 'duplicate' and 'limit_exceeded' leave the list unchanged.
C10_AddRemoveKeepsStore ==
    /\ [](UniquePerChatAddress /\ WithinLimit)
    /\ [][AddAnswerRight]_vars

\* a chat holding maxPerUser Subscriptions was refused one more
C10_Witness ==
    /\ lastOp.op = "track"
    /\ lastOp.result = "limit_exceeded"
    /\ Len(UserSubs(subscriptions, lastOp.chatId)) = MaxPerUser


Successes(code) == {i \in DOMAIN calls : calls[i].result = "success" /\ calls[i].code = code}

Holders(code) == {c \in Chats : paidSubs[c] = code}

\* C11: for every access code, at most one redeemCode call returns success and
\* at most one chat holds a Paid Subscription obtained from it.
C11_CodeRedeemedAtMostOnce ==
    \A code \in Codes : Cardinality(Successes(code)) <= 1 /\ Cardinality(Holders(code)) <= 1

\* C12: at most one execution of processNewBlocks is in progress and at most
\* one poll timer is pending.
C12_TicksSerialized == poller.polls <= 1 /\ Cardinality(poller.pending) <= 1

\* the events of the running tick for which notify has returned
Delivered(t) ==
    \A ev \in SeqToSet(TickKept(t).kept) :
        \E i \in DOMAIN notifiedTxHashes : notifiedTxHashes[i] = ev.txHash

\* C13: the cursor is written only after the Notifier has returned for all
\* events of the tick.
C13_DeliveredBeforeCursor ==
    [][lastProcessedBlock' # lastProcessedBlock
        => (Delivered(tick) /\ (TickKept(tick).kept # <<>> => hist.dispatched))]_vars

\* a tick handed events to the Notifier and then wrote the cursor
C13_Witness == pc = "idle" /\ hist.wrote /\ hist.handed # {}

NonDecreasing(heights) == \A i, j \in DOMAIN heights : i < j => heights[i] <= heights[j]

\* C14: event messages are sent in block order: no message for an event of a
\* higher block precedes a message for an event of a lower block, within a
\* tick and from one tick to the next.
C14_SentInBlockOrder ==
    hist.dispatched => NonDecreasing(<<hist.prevHeight>> \o hist.sentHeights)



\* the tick in progress re-runs the range of the tick that was interrupted,
\* with the Subscriptions unchanged in between
IsRerun ==
    /\ pc = "write"
    /\ session.replay.set
    /\ session.replay.from = hist.from
    /\ session.replay.last = tick.last
    /\ session.replay.subs = subscriptions

\* C15: a tick interrupted after its UTXO deltas and before its cursor write,
\* when re-run over the same range, produces the same set of events (type,
\* address, tx hash, amount) and leaves the same stored UTXO set.
C15_RerunIdempotent ==
    IsRerun => /\ {EventView(ev) : ev \in hist.produced} = session.replay.events
               /\ UtxoView(utxos) = session.replay.utxos

\* C16: within one process lifetime, once the events of a transaction were
\* handed to the Notifier in some tick, no event with that tx hash is handed
\* to it in a later tick.
C16_HandedOncePerLifetime == hist.rehanded = {}

\* the kinds of message whose text describes a failure of the pipeline
ErrorKinds == {"scanfail"}

\* C17: whatever fails during a tick, no message describing the error is
\* sent to any chat.
C17_NoErrorSurfaced == \A m \in msgs : m.kind \notin ErrorKinds

\* C18: a tick whose batch holds a record with an unparsable amount skips the
\* record and goes on: it is not aborted.
C18_MalformedSkipped == hist.malformed => ~hist.aborted

EventSentTo(chatId, address, txHash) ==
    \E m \in msgs : /\ m.kind = "event" /\ m.chat = chatId
                    /\ m.address = address /\ m.txHash = txHash

\* C19: a chat whose paid subscription is not live is sent no event
\* notification and at most one expiry notice, over any number of events and
\* notify calls, until it renews; a chat that is live is sent the
\* notifications of the events it tracks.
C19_SubscriptionGate ==
    /\ \A c \in Chats : session.notices[c] <= 1
    /\ pc = "write" =>
          /\ \A m \in msgs : m.kind = "event" => m.chat \in paidLive
          /\ \A o \in hist.owed : EventSentTo(o[1], o[2], o[3])

\* a chat that was sent the expiry notice has renewed and is sent an event
\* notification again
C19_Witness ==
    /\ pc = "write"
    /\ \E c \in session.renewed : \E m \in msgs : m.kind = "event" /\ m.chat = c

Primaries(subs) == {subs[i].address : i \in DOMAIN subs}

\* the addresses that are a linked form of a Subscription other than its primary
LinkedAliases(subs) ==
    UNION {{x \in SeqToSet(LinkedExtras(subs[i].linked)) : x # None /\ x # subs[i].address} :
            i \in DOMAIN subs}

\* the tracked outputs of the transaction txHash of block h
TrackedOutputsOf(txHash, h) ==
    UNION {SeqToSet(TrackedOutputs(tx, tick.trackedSet)) :
            tx \in {t \in SeqToSet(BlockTxs(h, chain[h])) : t.hash = txHash}}

\* C21: every btc_received event of the tick carries the canonical address
\* of the output it reports, and that address is the primary address of a
\* current Subscription, never a linked alias.
C21_ReceivedCanonical ==
    pc = "scan" =>
        \A i \in DOMAIN tick.btcEvents :
            LET ev == tick.btcEvents[i] IN
            ev.type = "btc_received" =>
                /\ \E o \in TrackedOutputsOf(ev.txHash, ev.blockHeight) :
                        /\ o.value = ev.satoshis
                        /\ ev.address = Canonical(tick.canonicalMap, o.address)
                /\ ev.address \in Primaries(subscriptions)
                /\ ev.address \notin LinkedAliases(subscriptions)

\* the heights the tick in progress has scanned
ScannedHeights == {h \in 1..MaxHeight : tick.since <= h /\ h < tick.height}

\* tx2 of block h2 spends a tracked output that tx1 of block h1 created
SpendsReceived(h1, tx1, h2, tx2) ==
    /\ h1 <= h2
    /\ tx1.hash # tx2.hash
    /\ \E o \in SeqToSet(TrackedOutputs(tx1, tick.trackedSet)) :
            <<tx1.hash, o.index>> \in SeqToSet(tx2.inputs)

\* C22: a tracked output created and spent within the blocks of one tick is
\* detected as spent: a btc_sent event is emitted for the spending
\* transaction and the output is not left in the stored UTXO set.
C22_ReceivedThenSpentDetected ==
    (pc = "scan" /\ ~tick.readFailed) =>
        \A h1, h2 \in ScannedHeights :
            \A tx1 \in SeqToSet(BlockTxs(h1, chain[h1])),
               tx2 \in SeqToSet(BlockTxs(h2, chain[h2])) :
                SpendsReceived(h1, tx1, h2, tx2) =>
                    /\ \E i \in DOMAIN tick.btcEvents :
                            /\ tick.btcEvents[i].type = "btc_sent"
                            /\ tick.btcEvents[i].txHash = tx2.hash
                    /\ \A o \in SeqToSet(TrackedOutputs(tx1, tick.trackedSet)) :
                            <<tx1.hash, o.index>> \in SeqToSet(tx2.inputs) =>
                                <<tx1.hash, o.index>> \notin StoredKeys

\* the price-alert messages sent to a chat for a price-change record
PriceAlerts(chatId, p) ==
    {m \in msgs : /\ m.kind = "price" /\ m.chat = chatId
                  /\ m.address = p.tokenContract /\ m.txHash = <<"p", p.blockHeight>>}

\* C23: once a tick has processed a batch (the cursor is written), every
\* price-change record of the batch has produced exactly one price alert for
\* every Token-Watch on its contract whose threshold is positive and not
\* above the record's delta, tracked wallets or not, and none for the others.
C23_PriceAlertPerWatch ==
    hist.wrote =>
        LET batch == FetchEvents(chain, Since(hist.from), lastProcessedBlock).priceChanges IN
        \A i \in DOMAIN batch : \A j \in DOMAIN tokenSubscriptions :
            LET p == batch[i]
                w == tokenSubscriptions[j]
            IN w.contractAddress = p.tokenContract =>
                Cardinality(PriceAlerts(w.chatId, p)) =
                    (IF w.priceThresholdPct > 0 /\ p.deltaPct >= w.priceThresholdPct
                     THEN 1 ELSE 0)

\* C24: while the poller is stopped no tick starts, whatever timers are still
\* pending and whether or not a tick was in flight when stop() was called;
\* stop() itself leaves the ticks in flight running and the cursor as it is.
C24_NoTickAfterStop ==
    [][/\ poller'.polls > poller.polls => poller'.running
       /\ (poller.running /\ ~poller'.running) =>
              /\ poller'.polls = poller.polls
              /\ lastProcessedBlock' = lastProcessedBlock]_vars

\* stop() was called while a tick was in flight and a timer is still pending
C24_Witness == ~poller.running /\ poller.polls >= 1 /\ poller.pending # {}

\* C25: when a write of the Store to its file has failed, the cursor has not
\* moved on: the cursor in memory is the cursor the file holds.
C25_FailedWritePreservesCursor ==
    file.failed => lastProcessedBlock = file.lastProcessedBlock

\* the chain's UTXO set, at a node whose tip is view, over the primary
\* address and the linked forms stored for it
ChainViewOf(subs, primaryAddr, view) ==
    LET linked == GetLinkedAddressesFor(subs, primaryAddr)
        forms == ({primaryAddr} \cup SeqToSet(LinkedExtras(linked))) \ {None}
    IN UNION {{<<u.txid, u.vout, u.value>> : u \in SeqToSet(ChainUTXOs(chain, a, view))} :
                a \in forms}

\* the UTXO set stored under a primary address
StoredUnder(table, primaryAddr) ==
    {<<u.txid, u.vout, u.value>> : u \in SeqToSet(UtxoListOf(table, primaryAddr))}

\* C26: the tick that sees a primary address for the first time writes under
\* it the union of the chain's current UTXO sets at the primary address and
\* at every linked form; a primary address seeded before is not seeded again.
C26_SeededOnceWithUnion ==
    [][(pc = "idle" /\ pc' = "scan") =>
          /\ \A a \in utxoPopulated' \ utxoPopulated :
                \E view \in tick'.last..MaxHeight :
                    StoredUnder(utxos', a) = ChainViewOf(subscriptions', a, view)
          /\ \A a \in utxoPopulated :
                /\ a \in utxoPopulated'
                /\ UtxoListOf(utxos', a) = UtxoListOf(utxos, a)]_vars

\* the primary addresses with a stored mldsaHash
ResolvedPrimaries(subs) ==
    {a \in Primaries(subs) : GetLinkedAddressesFor(subs, a).mldsaHash # None}

\* C27: a tick whose getPublicKeyInfo call throws or returns nothing for a
\* primary address goes on: every other address asked for is resolved, the
\* address is left without linkage and without an mldsaMap entry, every
\* primary address without a stored hash is asked for by the tick, and a
\* primary address with a stored hash is not asked for.
C27_ResolutionFailureAbsorbed ==
    [][(pc = "idle" /\ pc' = "scan") =>
          /\ hist'.asked = Primaries(subscriptions) \ ResolvedPrimaries(subscriptions)
          /\ \A a \in hist'.skipped :
                /\ GetLinkedAddressesFor(subscriptions', a) = NoLink
                /\ a \notin hist'.mldsaKeys
          /\ \A a \in hist'.asked \ hist'.skipped :
                /\ GetLinkedAddressesFor(subscriptions', a).mldsaHash = OwnerOf(a)
                /\ a \in hist'.mldsaKeys
          /\ \A a \in ResolvedPrimaries(subscriptions) :
                GetLinkedAddressesFor(subscriptions', a) =
                    GetLinkedAddressesFor(subscriptions, a)]_vars

\* a tick skipped an address and resolved another one
C27_Witness ==
    /\ pc = "scan"
    /\ hist.skipped # {}
    /\ hist.asked \ hist.skipped # {}
    /\ \E a \in hist.skipped : GetLinkedAddressesFor(subscriptions, a) = NoLink

\* the linked address forms stored with the Subscriptions
LinkedForms(subs) ==
    UNION {SeqToSet(LinkedExtras(subs[i].linked)) \ {None} : i \in DOMAIN subs}

\* the three statements about a projection { trackedSet, mldsaMap keys,
\* canonicalMap } of the Subscriptions subs
ProjectionInvariants(subs, trackedSet, mldsaKeys, canonicalMap) ==
    /\ trackedSet = Primaries(subs) \cup LinkedForms(subs)
    /\ mldsaKeys \subseteq Primaries(subs)
    /\ \A k \in DOMAIN canonicalMap :
          /\ k \in trackedSet
          /\ k \in LinkedAliases(subs)
          /\ canonicalMap[k] \in Primaries(subs)

\* the projection getExpandedAddressData builds from the Store
StoreProjectionInvariants(subs) ==
    LET data == GetExpandedAddressData(subs) IN
    ProjectionInvariants(subs, data.trackedSet,
                         {data.mldsaMap[i].addr : i \in DOMAIN data.mldsaMap},
                         data.canonicalMap)

\* C28: in the identity projection of any Subscriptions, trackedSet is
\* exactly the primaries and the linked address forms, every key of mldsaMap
\* is a primary, every key of canonicalMap is in trackedSet and is a linked
\* alias, and every value of canonicalMap is a primary; for the projection
\* built from the Store and for the one a tick matches against.
C28_ProjectionInvariants ==
    [][/\ StoreProjectionInvariants(subscriptions')
       /\ (pc = "idle" /\ pc' = "scan") =>
             ProjectionInvariants(subscriptions', tick'.trackedSet, hist'.mldsaKeys,
                                  tick'.canonicalMap)]_vars

\* the projection built from the Store alone
C28_StoreProjection == StoreProjectionInvariants(subscriptions)

\* the tx hashes of the btc_sent events the scan found through the UTXO map
ConfirmedSentHashes(t) ==
    {t.btcEvents[i].txHash : i \in {j \in DOMAIN t.btcEvents : t.btcEvents[j].type = "btc_sent"}}

\* the events the promotion pushed after the events of the scan
PromotedEvents(t) ==
    LET all == PromoteInferredSends(t.btcEvents, t.allInferredSends) IN
    SubSeq(all, Len(t.btcEvents) + 1, Len(all))

IsPromotionOf(ev, inf) ==
    /\ ev.type = "btc_sent"
    /\ ev.txHash = inf.txHash
    /\ ev.address = inf.address
    /\ ev.satoshis = inf.totalSent
    /\ ev.counterparty = inf.counterparty

\* C29: an inferred send of the tick is promoted to a btc_sent event exactly
\* when the scan found no btc_sent for its tx hash through the UTXO map; no
\* tx hash has both a confirmed btc_sent and a promoted one; the promoted
\* event carries satoshis = totalSent.
C29_PromotionIffNoConfirmedSend ==
    LET promoted == PromotedEvents(tick)
        confirmed == ConfirmedSentHashes(tick)
        infs == tick.allInferredSends
    IN /\ \A j \in DOMAIN infs :
             (\E i \in DOMAIN promoted : IsPromotionOf(promoted[i], infs[j]))
                <=> infs[j].txHash \notin confirmed
       /\ \A i \in DOMAIN promoted :
             /\ promoted[i].txHash \notin confirmed
             /\ \E j \in DOMAIN infs : IsPromotionOf(promoted[i], infs[j])
       /\ Len(promoted) = Cardinality({j \in DOMAIN infs : infs[j].txHash \notin confirmed})

\* a tick whose scan found a btc_sent through the UTXO map for the tx of an
\* inferred send: the inferred send is not promoted
C29_Witness ==
    /\ pc = "scan"
    /\ \E j \in DOMAIN tick.allInferredSends :
          /\ tick.allInferredSends[j].txHash \in ConfirmedSentHashes(tick)
          /\ \A i \in DOMAIN PromotedEvents(tick) :
                PromotedEvents(tick)[i].txHash # tick.allInferredSends[j].txHash

\* a tick with an inferred send that is promoted
C29_PromotedReached ==
    /\ pc = "scan"
    /\ \E i \in DOMAIN PromotedEvents(tick) : PromotedEvents(tick)[i].satoshis > 0

(***************************************************************************)
(* Ticks over blocks in which one transaction pays two forms of one        *)
(* identity and moves one token twice                                      *)
(***************************************************************************)
DedupChain == [h \in 1..MaxHeight |-> "twice"]

InitDedup ==
    /\ InitCommon
    /\ chain = DedupChain
    /\ typed = {<<1, "T1">>, <<2, "T1">>}
    /\ cmds = MaxCmds

NextDedup ==
    \/ \E cmd \in typed, rpc \in RpcResults : TrackCommand(cmd[1], cmd[2], rpc)
    \/ \E lastIndexedBlock \in 1..MaxHeight : TickNothingNew(lastIndexedBlock)
    \/ \E lastIndexedBlock \in 1..MaxHeight : TickNoTracked(lastIndexedBlock)
    \/ \E lastIndexedBlock \in 1..MaxHeight : TickStart(lastIndexedBlock, {})
    \/ TickScanBlock
    \/ TickDispatch
    \/ TickWriteCursor

SpecDedup == InitDedup /\ [][NextDedup]_vars

\* the indices of allEvents that hold the first event of their key
FirstOfKey(allEvents) ==
    {n \in DOMAIN allEvents :
        \A m \in 1..(n - 1) : DedupKey(allEvents[m]) # DedupKey(allEvents[n])}

\* C30: after the dedup no two events of the tick share the key (type,
\* txHash, address, contract, direction), and the events kept are, in merge
\* order, the first event of every key.
C30_DedupKeepsFirst ==
    LET allEvents == TickKept(tick).allEvents
        dedupedEvents == TickKept(tick).dedupedEvents
        first == FirstOfKey(allEvents)
    IN /\ \A i, j \in DOMAIN dedupedEvents :
             i # j => DedupKey(dedupedEvents[i]) # DedupKey(dedupedEvents[j])
       /\ Len(dedupedEvents) = Cardinality(first)
       /\ \A i \in DOMAIN dedupedEvents : dedupedEvents[i] = allEvents[NthOf(first, i)]

\* the merged events of a tick hold two different events with one key
C30_Witness ==
    LET allEvents == TickKept(tick).allEvents IN
    /\ pc = "scan"
    /\ tick.height > tick.last
    /\ \E i, j \in DOMAIN allEvents :
          /\ i < j
          /\ DedupKey(allEvents[i]) = DedupKey(allEvents[j])
          /\ allEvents[i] # allEvents[j]
          /\ allEvents[i].type = "btc_received"
    /\ \E i, j \in DOMAIN allEvents :
          /\ i < j
          /\ DedupKey(allEvents[i]) = DedupKey(allEvents[j])
          /\ allEvents[i].type = "token"

(***************************************************************************)
(* Ticks over a chain whose even blocks hold one transaction that spends   *)
(* two tracked outputs and one output that is not tracked                  *)
(***************************************************************************)
SpendChain == [h \in 1..MaxHeight |-> IF h % 2 = 1 THEN "recv" ELSE "spend2"]

InitSpend ==
    /\ InitCommon
    /\ chain = SpendChain
    /\ typed = {<<1, "T1">>, <<2, "T1">>}
    /\ cmds = MaxCmds

NextSpend ==
    \/ \E cmd \in typed, rpc \in RpcResults : TrackCommand(cmd[1], cmd[2], rpc)
    \/ \E lastIndexedBlock \in 1..MaxHeight : TickNothingNew(lastIndexedBlock)
    \/ \E lastIndexedBlock \in 1..MaxHeight : TickNoTracked(lastIndexedBlock)
    \/ \E lastIndexedBlock \in 1..MaxHeight : TickStart(lastIndexedBlock, {})
    \/ TickScanBlock
    \/ TickDispatch
    \/ TickWriteCursor

SpecSpend == InitSpend /\ [][NextSpend]_vars

\* the indices of the inputs of tx whose (txid, vout) is a key of the map
TrackedInputs(tx, utxoMap) == {j \in DOMAIN tx.inputs : tx.inputs[j] \in DOMAIN utxoMap}

\* the btc_sent events of one transaction among events
SentOf(events, txHash) ==
    SelectSeq(events, LAMBDA ev : ev.type = "btc_sent" /\ ev.txHash = txHash)

\* C31: the scan of a block emits, for every transaction, one btc_sent event
\* per input whose (txid, vout) is a key of utxoMap, with the address and the
\* value the map holds for the key, and removes the key from the map and from
\* the Store; an input that is not a key of the map yields no event.
C31_SpendDetection ==
    [][(pc = "scan" /\ tick'.height = tick.height + 1) =>
          \A tx \in SeqToSet(BlockTxs(tick.height, chain[tick.height])) :
            LET new == SubSeq(tick'.btcEvents, Len(tick.btcEvents) + 1, Len(tick'.btcEvents))
                sent == SentOf(new, tx.hash)
                tracked == TrackedInputs(tx, tick.utxoMap)
            IN /\ Len(sent) = Cardinality(tracked)
               /\ \A n \in DOMAIN sent :
                     LET key == tx.inputs[NthOf(tracked, n)] IN
                     /\ sent[n].address = tick.utxoMap[key].primaryAddress
                     /\ sent[n].satoshis = tick.utxoMap[key].value
               /\ \A j \in tracked :
                     /\ tx.inputs[j] \notin DOMAIN tick'.utxoMap
                     /\ tx.inputs[j] \notin StoredKeys']_vars

\* the scan found two spent outputs of the map among the three inputs of one
\* transaction
C31_Witness ==
    /\ pc = "scan"
    /\ \E h \in 1..MaxHeight : Len(SentOf(tick.btcEvents, <<"s", h>>)) = 2
    /\ <<GenesisTx, 0>> \notin StoredKeys

(***************************************************************************)
(* Ticks of a process that has notified nearly MAX_NOTIFIED_TX_HASHES      *)
(* transactions before                                                     *)
(***************************************************************************)
\* the session set after n notified transactions, oldest first
NotifiedBefore(n) == [i \in 1..n |-> <<"n", i>>]

InitPrune ==
    /\ subscriptions = <<>>
    /\ lastProcessedBlock = Null
    /\ utxos = <<>>
    /\ authorizedChats = Chats
    /\ tokenSubscriptions = TokenWatches
    /\ paidLive = Chats
    /\ expiredNotified = {}
    /\ \E n \in (MAX_NOTIFIED_TX_HASHES - MaxHeight)..MAX_NOTIFIED_TX_HASHES :
          notifiedTxHashes = NotifiedBefore(n)
    /\ utxoPopulated = {}
    /\ pc = "idle"
    /\ tick = NoTick
    /\ msgs = {}
    /\ hist = NoHist
    /\ lastOp = NoOp
    /\ accessCodes = [FreshCodes EXCEPT !["JTA"] = AccessCodeDoc(TRUE, 1, FALSE),
                                        !["JTB"] = AccessCodeDoc(TRUE, 2, FALSE)]
    /\ paidSubs = [c \in Chats |-> IF c = 1 THEN "JTA" ELSE "JTB"]
    /\ calls = [i \in 1..MaxCalls |-> NoCall]
    /\ poller = NoPoller
    /\ session = NoSession
    /\ file = NoFile
    /\ expiry = NoExpiry
    /\ chain = SpendChain
    /\ typed = {<<1, "T1">>, <<2, "T1">>}
    /\ cmds = MaxCmds

SpecPrune == InitPrune /\ [][NextSpend]_vars

\* the tx hashes a tick inserts into the session set, in insertion order: the
\* hashes of the events it handed to the Notifier
InsertedHashes(t, notified) ==
    AddAllHashes(<<>>, FilterNotified(TickKept(t).kept, notified), 1)

\* C32: the session set of notified tx hashes never holds more than
\* MAX_NOTIFIED_TX_HASHES entries after a tick; when the hashes a tick inserts
\* make it overflow, the entries removed are the ones inserted first: the set
\* is left with the entries inserted last, in insertion order.
C32_NotifiedBoundedOldestPruned ==
    [][LET old == notifiedTxHashes
           new == notifiedTxHashes'
           all == old \o InsertedHashes(tick, old)
       IN /\ Len(new) <= MAX_NOTIFIED_TX_HASHES
          /\ (pc = "scan" /\ pc' = "write") =>
                /\ Len(new) = IF Len(all) > MAX_NOTIFIED_TX_HASHES
                              THEN MAX_NOTIFIED_TX_HASHES ELSE Len(all)
                /\ new = SubSeq(all, Len(all) - Len(new) + 1, Len(all))]_vars

\* a tick whose transactions made the set overflow: the oldest entry is gone
\* and the set holds MAX_NOTIFIED_TX_HASHES entries, the newest one last
C32_Witness ==
    /\ Len(notifiedTxHashes) = MAX_NOTIFIED_TX_HASHES
    /\ notifiedTxHashes[1] # <<"n", 1>>
    /\ notifiedTxHashes[MAX_NOTIFIED_TX_HASHES][1] # "n"

(***************************************************************************)
(* Ticks over blocks with a BTC receive next to a one-sided token event, a *)
(* provider_consumed event, a swap_executed event or a two-sided trade     *)
(***************************************************************************)
SuppressThemes == << <<"tokenin", "consumed">>, <<"swap", "trade">> >>

InitSuppress ==
    /\ InitCommon
    /\ \E t \in DOMAIN SuppressThemes :
          chain = [h \in 1..MaxHeight |-> SuppressThemes[t][((h - 1) % 2) + 1]]
    /\ typed = {<<1, "T1">>, <<2, "T1">>}
    /\ cmds = MaxCmds

SpecSuppress == InitSuppress /\ [][NextSpend]_vars

\* the events the suppression step removed from the deduplicated events
RemovedBySuppression(t) ==
    LET k == TickKept(t) IN
    {ev \in SeqToSet(k.dedupedEvents) : ev \notin SeqToSet(k.kept)}

TimePasses ==
    /\ expiry.now < MaxNow
    /\ expiry' = [expiry EXCEPT !.now = @ + 1]
    /\ UNCHANGED <<redeemVars, poller, session, file>>
    /\ UNCHANGED <<subscriptions, lastProcessedBlock, utxos, authorizedChats,
                   tokenSubscriptions, paidLive, expiredNotified, notifiedTxHashes,
                   utxoPopulated, chain, typed, cmds, pc, tick, msgs, hist, lastOp>>

\* no chat has redeemed a code; a 3-day code and a 1-day code are unused
InitExpiry ==
    /\ subscriptions = <<>>
    /\ lastProcessedBlock = Null
    /\ utxos = <<>>
    /\ authorizedChats = {}
    /\ tokenSubscriptions = <<>>
    /\ paidLive = {}
    /\ expiredNotified = {}
    /\ notifiedTxHashes = <<>>
    /\ utxoPopulated = {}
    /\ chain = QuietChain
    /\ typed = {}
    /\ cmds = 0
    /\ pc = "idle"
    /\ tick = NoTick
    /\ msgs = {}
    /\ hist = NoHist
    /\ lastOp = NoOp
    /\ accessCodes = FreshCodes
    /\ paidSubs = [c \in Chats |-> None]
    /\ calls = [i \in 1..MaxCalls |-> NoCall]
    /\ poller = NoPoller
    /\ session = NoSession
    /\ file = NoFile
    /\ expiry = NoExpiry

NextExpiry ==
    \/ \E i \in 1..MaxCalls, code \in {"JTA", "JT1"} : RedeemCommand(i, 1, code)
    \/ \E i \in 1..MaxCalls : RedeemFind(i)
    \/ \E i \in 1..MaxCalls : RedeemMark(i)
    \/ \E i \in 1..MaxCalls : RedeemUpsert(i)
    \/ TimePasses

SpecExpiry == InitExpiry /\ [][NextExpiry]_vars

\* C34: a successful redeemCode never moves the expiry of the chat's Paid
\* Subscription to an earlier time than the expiry the chat had before.
C34_RedeemNeverShortens ==
    [][\A c \in Chats :
          expiry.expiresAt[c] # Null => expiry'.expiresAt[c] >= expiry.expiresAt[c]]_vars

(***************************************************************************)
(* The auth gate of the bot, in front of the command handlers              *)
(***************************************************************************)
\* the message texts: a text is the command it starts with and what follows
\* without a space ("/startx" starts with "/start" and is no command)
Texts == {"/start", "/startx", "/redeem", "/track", "/untrack"}

\* text.startsWith('/start') || text.startsWith('/redeem')
StartsWithStartOrRedeem(text) == text \in {"/start", "/startx", "/redeem"}

\* the gate without the paid-subscription check
AuthGateAuthorizedOnly(authorized, paid, chatId, text) ==
    IF StartsWithStartOrRedeem(text) THEN "next"
    ELSE IF chatId \notin authorized THEN "Not authorized"
    ELSE "next"

\* the auth middleware: "next", or the text of the reply it sends
AuthGate(authorized, paid, chatId, text) ==
    IF StartsWithStartOrRedeem(text) THEN "next"
    ELSE IF chatId \notin authorized THEN "Not authorized"
    ELSE IF ~HasActiveSubscription(paid, chatId) THEN "Subscription expired"
    ELSE "next"

\* the gate replies and returns: no handler runs
GateReply(chatId, text) ==
    LET g == AuthGate(authorizedChats, paidLive, chatId, text) IN
    /\ pc = "idle"
    /\ g # "next"
    /\ lastOp' = [op |-> "gate", chatId |-> chatId, address |-> None, result |-> g]
    /\ UNCHANGED <<redeemVars, poller, session, file, expiry>>
    /\ UNCHANGED <<subscriptions, lastProcessedBlock, utxos, authorizedChats,
                   tokenSubscriptions, paidLive, expiredNotified, notifiedTxHashes,
                   utxoPopulated, chain, typed, cmds, pc, tick, msgs, hist>>

\* /start, or a text that is no command, behind the gate
BotStart(chatId, text) ==
    /\ pc = "idle"
    /\ text \in {"/start", "/startx"}
    /\ AuthGate(authorizedChats, paidLive, chatId, text) = "next"
    /\ lastOp' = [op |-> IF text = "/start" THEN "start" ELSE "unknown",
                  chatId |-> chatId, address |-> None, result |-> None]
    /\ UNCHANGED <<redeemVars, poller, session, file, expiry>>
    /\ UNCHANGED <<subscriptions, lastProcessedBlock, utxos, authorizedChats,
                   tokenSubscriptions, paidLive, expiredNotified, notifiedTxHashes,
                   utxoPopulated, chain, typed, cmds, pc, tick, msgs, hist>>

\* bot.command('track') and bot.command('untrack') behind the gate
BotTrack(chatId, address, rpc) ==
    /\ AuthGate(authorizedChats, paidLive, chatId, "/track") = "next"
    /\ TrackCommand(chatId, address, rpc)

BotUntrack(chatId, address) ==
    /\ AuthGate(authorizedChats, paidLive, chatId, "/untrack") = "next"
    /\ UntrackCommand(chatId, address)

\* bot.command('redeem') behind the gate
BotRedeem(i, chatId, code) ==
    /\ AuthGate(authorizedChats, paidLive, chatId, "/redeem") = "next"
    /\ RedeemCommand(i, chatId, code)

InitBot ==
    /\ InitCommon
    /\ chain = QuietChain
    /\ typed = {<<1, "T1">>, <<2, "T1">>}
    /\ cmds = MaxCmds

NextBot ==
    \/ \E chatId \in Chats, text \in Texts : GateReply(chatId, text)
    \/ \E chatId \in Chats, text \in Texts : BotStart(chatId, text)
    \/ \E cmd \in typed, rpc \in RpcResults : BotTrack(cmd[1], cmd[2], rpc)
    \/ \E cmd \in typed : BotUntrack(cmd[1], cmd[2])
    \/ \E chatId \in Chats : BotRedeem(1, chatId, "JT1")
    \/ RedeemFind(1)
    \/ RedeemMark(1)
    \/ RedeemUpsert(1)
    \/ \E chatId \in Chats : Expire(chatId)
    \/ \E chatId \in Chats : RevokeCommand(chatId)

\* messages of two chats, while access is revoked, runs out and is redeemed
SpecBot == InitBot /\ [][NextBot]_vars

\* the addresses a chat tracks
TrackedBy(subs, chatId) == {subs[i].address : i \in {j \in DOMAIN subs : subs[j].chatId = chatId}}

\* C35: a handler of a command other than /start and /redeem runs only for a
\* chat that is authorized and has a live paid subscription when the gate
\* checks; a chat that is not gets one reply, no handler runs and the
\* wallets it tracks stay as they are.
C35_CommandGate ==
    [][/\ lastOp'.op \in {"track", "untrack"} /\ cmds' # cmds =>
             /\ lastOp'.chatId \in authorizedChats
             /\ lastOp'.chatId \in paidLive
       /\ (lastOp'.op = "gate" /\ lastOp' # lastOp) =>
             /\ lastOp'.chatId \notin authorizedChats \/ lastOp'.chatId \notin paidLive
             /\ lastOp'.result \in {"Not authorized", "Subscription expired"}
             /\ UNCHANGED <<subscriptions, utxos, authorizedChats, paidLive, redeemVars>>
       /\ \A c \in Chats \ (authorizedChats \cap paidLive) :
             TrackedBy(subscriptions', c) = TrackedBy(subscriptions, c)]_vars

\* a chat that tracked a wallet and whose paid subscription then ran out is
\* answered by the gate
C35_Witness ==
    /\ lastOp.op = "gate"
    /\ lastOp.result = "Subscription expired"
    /\ lastOp.chatId \in authorizedChats
    /\ UserSubs(subscriptions, lastOp.chatId) # <<>>

(***************************************************************************)
(* The poll loop                                                           *)
(***************************************************************************)
\* a poll() whose catch rethrows: the loop ends with the first tick that threw
AfterTickStopsOnError(p, threw, id) ==
    IF p.running /\ ~threw
    THEN [p EXCEPT !.polls = @ - 1, !.timer = id, !.pending = @ \cup {id}]
    ELSE [p EXCEPT !.polls = @ - 1]

\* poll() after processNewBlocks settled: the catch only logs, then
\* if (this.running) this.timer = setTimeout(() => void this.poll(), pollIntervalMs)
AfterTick(p, threw, id) ==
    IF p.running
    THEN [p EXCEPT !.polls = @ - 1, !.timer = id, !.pending = @ \cup {id}]
    ELSE [p EXCEPT !.polls = @ - 1]

\* a tick settles: processNewBlocks returned, or threw
LoopTickSettles(threw) ==
    /\ poller.polls > 0
    /\ poller.running => FreshTimers(poller) # {}
    /\ \E id \in IF poller.running THEN FreshTimers(poller) ELSE {0} :
           poller' = AfterTick(poller, threw, id)
    /\ lastOp' = [NoOp EXCEPT !.op = "tick",
                              !.result = IF threw THEN "threw" ELSE "returned"]
    /\ UNCHANGED <<redeemVars, session>>
    /\ UNCHANGED expiry
    /\ UNCHANGED file
    /\ UNCHANGED <<subscriptions, lastProcessedBlock, utxos, authorizedChats,
                   tokenSubscriptions, paidLive, expiredNotified, notifiedTxHashes,
                   utxoPopulated, chain, typed, cmds, pc, tick, msgs, hist>>

\* the timer callback runs poll(): a tick starts if the poller is running
LoopTimerFires(id) ==
    /\ id \in poller.pending
    /\ poller.running => poller.polls < MaxPolls
    /\ poller' = PollEnter([poller EXCEPT !.pending = @ \ {id}])
    /\ lastOp' = [NoOp EXCEPT !.op = "poll",
                              !.result = IF poller.running THEN "tick" ELSE "return"]
    /\ UNCHANGED <<redeemVars, session>>
    /\ UNCHANGED expiry
    /\ UNCHANGED file
    /\ UNCHANGED <<subscriptions, lastProcessedBlock, utxos, authorizedChats,
                   tokenSubscriptions, paidLive, expiredNotified, notifiedTxHashes,
                   utxoPopulated, chain, typed, cmds, pc, tick, msgs, hist>>

\* start(), while fewer than MaxLoops polls are in a tick or wait for a timer
LoopStart ==
    /\ poller.polls + Cardinality(poller.pending) < MaxLoops
    /\ PollerStart

NextLoop ==
    \/ LoopStart
    \/ PollerStop
    \/ \E id \in 1..MaxTimers : LoopTimerFires(id)
    \/ \E threw \in BOOLEAN : LoopTickSettles(threw)

\* a timer that was set fires, and a tick that was started settles
LoopFairness ==
    /\ \A id \in 1..MaxTimers : SF_vars(LoopTimerFires(id))
    /\ SF_vars(\E threw \in BOOLEAN : LoopTickSettles(threw))

\* start(), stop(), timer callbacks and ticks that return or throw
SpecLoop == InitPoll /\ [][NextLoop]_vars

SpecLoopFair == SpecLoop /\ LoopFairness

\* the last step was a tick that settled while the poller was running
TickSettledRunning(result) ==
    lastOp.op = "tick" /\ lastOp.result = result /\ poller.running

\* every tick that settles while the poller is running sets exactly one
\* timer, which this.timer holds, whether the tick returned or threw; one
\* that settles after stop() sets none
OneNextTickScheduled ==
    [][lastOp'.op = "tick" /\ poller'.polls = poller.polls - 1 =>
          IF poller.running
          THEN /\ poller.pending \subseteq poller'.pending
               /\ Cardinality(poller'.pending \ poller.pending) = 1
               /\ poller'.timer \in poller'.pending \ poller.pending
               /\ poller'.running
          ELSE poller'.pending = poller.pending /\ poller'.timer = poller.timer]_vars

\* C36: while the poller is running, every tick that settles, returned or
\* thrown, schedules exactly one next tick, and that tick is started unless
\* stop() is called first: an error in a tick never ends the loop.
C36_PollLoopLive ==
    /\ OneNextTickScheduled
    /\ \A result \in {"returned", "threw"} :
          TickSettledRunning(result) ~>
              (~poller.running \/ (lastOp.op = "poll" /\ lastOp.result = "tick"))

\* a tick threw while the poller was running and its timer is pending
C36_Witness ==
    /\ TickSettledRunning("threw")
    /\ poller.timer \in poller.pending

\* no primary address is a key of the map that leads to another address
PrimariesFixed(canonicalMap, subs) ==
    \A P \in Primaries(subs) : Canonical(canonicalMap, P) = P

\* every output of a scanned block that pays a primary address P is reported
\* as btc_received with address P
ReceivedAtPrimary ==
    (pc = "scan" /\ ~tick.readFailed) =>
        \A h \in ScannedHeights :
            \A t \in DOMAIN BlockTxs(h, chain[h]) :
                \A o \in TrackedOutputsOf(BlockTxs(h, chain[h])[t].hash, h) :
                    o.address \in Primaries(subscriptions) =>
                        \E i \in DOMAIN tick.btcEvents :
                            /\ tick.btcEvents[i].type = "btc_received"
                            /\ tick.btcEvents[i].txHash = BlockTxs(h, chain[h])[t].hash
                            /\ tick.btcEvents[i].address = o.address

\* C37: the identity projection never maps the primary address of a
\* Subscription to a different primary, in the Store's projection and in the
\* one a tick matches against, so every output paid to a primary P is
\* reported as btc_received with address P.
C37_PrimaryNeverRemapped ==
    /\ PrimariesFixed(GetExpandedAddressData(subscriptions).canonicalMap, subscriptions)
    /\ pc # "idle" => PrimariesFixed(tick.canonicalMap, subscriptions)
    /\ ReceivedAtPrimary

\* what trackCommand answers: the outcome, and the address its reply shows
\* (the address typed, or existing.address in 'Already tracking this wallet as')
TrackOutcome(subs, chatId, address, rpc) ==
    LET linkedResult == ResolveOutcome(address, rpc)
    IN IF AlreadyTracking(subs, address, linkedResult)
       THEN [result |-> "already_tracking",
             shown |-> subs[FindSubscriptionByMldsaHash(subs, linkedResult.mldsaHash)].address]
       ELSE [result |-> AddSubscriptionResult(subs, chatId, address, MaxPerUser),
             shown |-> address]

\* C38: the outcome of a /track of chat c and the address its reply shows
\* are those the command gives on chat c's own Subscriptions alone, for the
\* same resolver result: no Subscription of another chat changes them.
C38_TrackOwnSubscriptionsOnly ==
    [][(lastOp'.op = "track" /\ cmds' # cmds) =>
          \E rpc \in RpcResults :
              /\ lastOp'.result =
                   TrackOutcome(subscriptions, lastOp'.chatId, lastOp'.address, rpc).result
              /\ TrackOutcome(subscriptions, lastOp'.chatId, lastOp'.address, rpc) =
                   TrackOutcome(UserSubs(subscriptions, lastOp'.chatId),
                                lastOp'.chatId, lastOp'.address, rpc)]_vars

\* events of one type, transaction and address
EventsOf(events, type, txHash, address) ==
    SelectSeq(events, LAMBDA ev :
        ev.type = type /\ ev.txHash = txHash /\ ev.address = address)

\* formatGroup: btcSentEvs.reduce((s, e) => s + e.satoshis, 0n)
TotalInput(events, txHash, address) ==
    SumSeq([i \in DOMAIN EventsOf(events, "btc_sent", txHash, address) |->
                EventsOf(events, "btc_sent", txHash, address)[i].satoshis])

\* C39: the dedup step retains every btc_sent event the scan produced for a
\* spent input and every token transfer the indexer reported, so the input
\* total summed over the btc_sent events of a transaction and a primary is
\* the sum of the values of the tracked outputs the transaction spends.
C39_DedupRetainsDistinctActions ==
    pc = "scan" =>
        LET k == TickKept(tick) IN
        /\ \A i \in DOMAIN tick.btcEvents :
              LET ev == tick.btcEvents[i] IN
              ev.type = "btc_sent" =>
                 /\ Len(EventsOf(k.dedupedEvents, "btc_sent", ev.txHash, ev.address))
                      = Len(EventsOf(tick.btcEvents, "btc_sent", ev.txHash, ev.address))
                 /\ TotalInput(k.dedupedEvents, ev.txHash, ev.address)
                      = TotalInput(tick.btcEvents, ev.txHash, ev.address)
        /\ \A i \in DOMAIN tick.tokenEvents :
              LET ev == tick.tokenEvents[i] IN
              Len(EventsOf(k.dedupedEvents, ev.type, ev.txHash, ev.address))
                 = Len(EventsOf(tick.tokenEvents, ev.type, ev.txHash, ev.address))
====
